---- MODULE Spec2Model ----
(***************************************************************************)
(* A model of the rocFFT client transform descriptor (fft_params), the     *)
(* run-time-compilation cache (RTCCache), the global-memory handlers of    *)
(* the device kernels (Handler<layout, cbtype>), the device call wrappers  *)
(* (devicecall.cpp), the kernel generator's radix breakdown                *)
(* (Kernel::Kernel), the Stockham kernel generator (StockhamKernel), the   *)
(* global kernels of generator.kernel.hpp (offsets, read/write flag,       *)
(* block-compute staging, Kernel2D) and the client's input, buffer-size    *)
(* and distance routines (client_utils.h).                                 *)
(*                                                                         *)
(* Each component has its own specification over the one set of            *)
(* variables; the variables of the other components stay at their idle     *)
(* values.                                                                 *)
(***************************************************************************)
EXTENDS Integers, Sequences, FiniteSets, TLC

VARIABLES
    \* fft_params
    request,    \* the descriptor as the caller filled it in
    params,     \* the fft_params object under test
    phase,      \* where the descriptor is: raw, validated, accepted, ...
    \* RTCCache
    cache,      \* the database: [enabled, kernels], kernels the rows of the table
    now,        \* the wall clock, in seconds
    buffer,     \* the serialized cache handed between processes, or NoBuffer
    get_stmt,   \* the values bound to the prepared get statement
    store_stmt, \* the values bound to the prepared store statement
    get_mutex,
    store_mutex,
    deserialize_mutex,
    attached,   \* the threads whose "deserialized" schema is attached to db
    active,     \* the threads that call into the cache
    pc,         \* each thread's position in its call
    call,       \* each thread's arguments
    ret,        \* what each thread's last get_code_object returned
    puts,       \* per key, the codes of the last stores since the cache opened
    \* Handler
    kernel,     \* a kernel instantiation and its run: buffers, registers, callback calls
    \* device calls and kernel generators
    sched,      \* a plan's nodes and the kernel launches made for them
    gen,        \* the kernel objects under construction and constructed
    dev,        \* a generated device function run by the work-items of a block
    \* generated global kernels and the client's buffer routines
    global,     \* a generated global kernel run by the work-items of a grid
    client      \* a client routine's buffers and its results

paramVars == <<request, params, phase>>

cacheVars ==
    <<cache, now, buffer, get_stmt, store_stmt, get_mutex, store_mutex,
      deserialize_mutex, attached, active, pc, call, ret, puts>>

genVars == <<sched, gen, dev>>

runVars == <<global, client>>

vars == <<paramVars, cacheVars, kernel, runVars, genVars>>

(***************************************************************************)
(* The values of the cache, and the idle values of each component's        *)
(* variables.                                                              *)
(***************************************************************************)
Threads == {"t1", "t2"}

\* A mutex is the set of the threads inside its critical section.
NoThread == {}
NoBuffer == [present |-> FALSE, rows |-> {}]
EmptyCode == <<>>
Codes == {<<1>>, <<2>>}

KeyA ==
    [kernel_name |-> "fft_fwd_len64", gpu_arch |-> "gfx906",
     hip_version |-> 1, generator_sum |-> "sumA"]
KeyB == [KeyA EXCEPT !.gpu_arch = "gfx908"]
StoreKeys == {KeyA, KeyB}
LookupKeys ==
    StoreKeys \cup {[KeyA EXCEPT !.kernel_name = "fft_fwd_len128"],
                    [KeyA EXCEPT !.hip_version = 2],
                    [KeyA EXCEPT !.generator_sum = "sumB"]}

Unbound == [owner |-> NoThread, key |-> KeyA, code |-> EmptyCode]
NoCall == [op |-> "none", key |-> KeyA, code |-> EmptyCode, rows |-> {}, status |-> "none"]
NoResult == [valid |-> FALSE, key |-> KeyA, code |-> EmptyCode]

CacheIdle ==
    /\ cache = [enabled |-> FALSE, kernels |-> {}]
    /\ now = 0
    /\ buffer = NoBuffer
    /\ get_stmt = Unbound
    /\ store_stmt = Unbound
    /\ get_mutex = NoThread
    /\ store_mutex = NoThread
    /\ deserialize_mutex = NoThread
    /\ attached = {}
    /\ active = {}
    /\ pc = <<>>
    /\ call = <<>>
    /\ ret = <<>>
    /\ puts = <<>>

ParamsIdle ==
    /\ request = <<>>
    /\ params = <<>>
    /\ phase = "idle"

KernelIdle == kernel = [pc |-> "idle"]

SchedIdle == sched = [pc |-> "idle"]

KernelGenIdle == gen = [pc |-> "idle"]

DeviceIdle == dev = [pc |-> "idle"]

GenIdle == SchedIdle /\ KernelGenIdle /\ DeviceIdle

GlobalIdle == global = [pc |-> "idle"]

ClientIdle == client = [pc |-> "idle"]

RunIdle == GlobalIdle /\ ClientIdle

(***************************************************************************)
(* Bounds of the descriptor inputs.                                        *)
(***************************************************************************)
MaxLen == 3
MaxBatch == 2
MaxStride == 2

\* rank is 1, 2 or 3
MaxDim == 3

(***************************************************************************)
(* rocfft enumerations.                                                    *)
(***************************************************************************)
TransformTypes == {"complex_forward", "complex_inverse", "real_forward", "real_inverse"}
Placements == {"inplace", "notinplace"}
ArrayTypes ==
    {"complex_interleaved", "complex_planar", "real",
     "hermitian_interleaved", "hermitian_planar"}
ArrayTypesOrUnset == ArrayTypes \cup {"unset"}

IsComplexC2C(t) == t \in {"complex_forward", "complex_inverse"}
IsComplexType(a) == a \in {"complex_interleaved", "complex_planar"}
IsHermitianType(a) == a \in {"hermitian_interleaved", "hermitian_planar"}

Max(a, b) == IF a >= b THEN a ELSE b
Min(a, b) == IF a <= b THEN a ELSE b

(***************************************************************************)
(* fft_params: the member functions, on a record p of the member fields.   *)
(* Vectors are sequences, index 1 is the C++ index 0.                      *)
(***************************************************************************)
dim(p) == Len(p.length)

ilength(p) ==
    IF p.transform_type = "real_inverse"
    THEN [p.length EXCEPT ![dim(p)] = (p.length[dim(p)] \div 2) + 1]
    ELSE p.length

olength(p) ==
    IF p.transform_type = "real_forward"
    THEN [p.length EXCEPT ![dim(p)] = (p.length[dim(p)] \div 2) + 1]
    ELSE p.length

nbuffer(type) ==
    CASE type \in {"real", "complex_interleaved", "hermitian_interleaved"} -> 1
      [] type \in {"complex_planar", "hermitian_planar"} -> 2
      [] OTHER -> 0

nibuffer(p) == nbuffer(p.itype)
nobuffer(p) == nbuffer(p.otype)

RECURSIVE SumExtent(_, _, _)
SumExtent(length, stride, i) ==
    IF i = 0 THEN 0
    ELSE (length[i] - 1) * stride[i] + SumExtent(length, stride, i - 1)

compute_ptrdiff(length, stride, nbatch, dist) ==
    IF Len(length) = 0 THEN 0
    ELSE 1 + SumExtent(length, stride, Len(length)) + (nbatch - 1) * dist

DefaultIType(t) ==
    CASE IsComplexC2C(t) -> "complex_interleaved"
      [] t = "real_forward" -> "real"
      [] t = "real_inverse" -> "hermitian_interleaved"

DefaultOType(t) ==
    CASE IsComplexC2C(t) -> "complex_interleaved"
      [] t = "real_forward" -> "hermitian_interleaved"
      [] t = "real_inverse" -> "real"

set_iotypes(p) ==
    [p EXCEPT !.itype = IF p.itype = "unset" THEN DefaultIType(p.transform_type) ELSE p.itype,
              !.otype = IF p.otype = "unset" THEN DefaultOType(p.transform_type) ELSE p.otype]

\* check_iotypes(): "throw", "ok" (true) or "bad" (false).
check_iotypes(p) ==
    IF p.itype \notin ArrayTypes \/ p.otype \notin ArrayTypes THEN "throw"
    ELSE IF /\ p.transform_type \notin {"real_forward", "real_inverse"}
            /\ p.placement = "inplace"
            /\ p.itype # p.otype
    THEN "throw"
    ELSE IF CASE IsComplexType(p.itype) -> IsComplexType(p.otype)
              [] IsHermitianType(p.itype) -> p.otype = "real"
              [] p.itype = "real" -> IsHermitianType(p.otype)
         THEN "ok" ELSE "bad"

RECURSIVE StrideAt(_, _, _, _)
StrideAt(length, stride0, rcpadding, i) ==
    LET d == Len(length)
        s == Len(stride0)
        lengthip1 == IF rcpadding /\ i = d - 1
                     THEN 2 * ((length[i + 1] \div 2) + 1)
                     ELSE length[i + 1]
    IN  IF s = 0 /\ i = d THEN 1
        ELSE IF s # 0 /\ i > d - s THEN stride0[i - (d - s)]
        ELSE StrideAt(length, stride0, rcpadding, i + 1) * lengthip1

RECURSIVE StrideAtNoPad(_, _, _, _)
StrideAtNoPad(length, stride0, rcpadding, i) ==
    LET d == Len(length)
        s == Len(stride0)
    IN  IF s = 0 /\ i = d THEN 1
        ELSE IF s # 0 /\ i > d - s THEN stride0[i - (d - s)]
        ELSE StrideAtNoPad(length, stride0, rcpadding, i + 1) * length[i + 1]

compute_stride_nopad(length, stride0, rcpadding) ==
    [i \in 1..Len(length) |-> StrideAtNoPad(length, stride0, rcpadding, i)]

compute_stride(length, stride0, rcpadding) ==
    [i \in 1..Len(length) |-> StrideAt(length, stride0, rcpadding, i)]

compute_istride(p) ==
    [p EXCEPT !.istride =
        compute_stride(ilength(p), p.istride,
                       p.placement = "inplace" /\ p.transform_type = "real_forward")]

compute_ostride(p) ==
    [p EXCEPT !.ostride =
        compute_stride(olength(p), p.ostride,
                       p.placement = "inplace" /\ p.transform_type = "real_inverse")]

RECURSIVE MaxExtent(_, _, _, _)
MaxExtent(length, stride, i, acc) ==
    IF i = 0 THEN acc
    ELSE MaxExtent(length, stride, i - 1, Max(length[i] * stride[i], acc))

set_idist(p) ==
    LET d == dim(p) IN
    IF p.idist # 0 THEN p
    ELSE IF p.transform_type = "real_forward" /\ d = 1 /\ p.placement = "inplace"
    THEN [p EXCEPT !.idist = 2 * ((p.length[1] \div 2) + 1) * p.istride[1]]
    ELSE IF p.transform_type = "real_inverse" /\ d = 1
    THEN [p EXCEPT !.idist = ((p.length[1] \div 2) + 1) * p.istride[1]]
    ELSE [p EXCEPT !.idist =
            MaxExtent(p.length, p.istride, d - 1,
                      IF p.transform_type = "real_inverse"
                      THEN ((p.length[d] \div 2) + 1) * p.istride[d]
                      ELSE p.length[d] * p.istride[d])]

set_odist(p) ==
    LET d == dim(p) IN
    IF p.odist # 0 THEN p
    ELSE IF p.transform_type = "real_inverse" /\ d = 1 /\ p.placement = "inplace"
    THEN [p EXCEPT !.odist = 2 * ((p.length[1] \div 2) + 1) * p.ostride[1]]
    ELSE IF p.transform_type = "real_forward" /\ d = 1
    THEN [p EXCEPT !.odist = ((p.length[1] \div 2) + 1) * p.ostride[1]]
    ELSE [p EXCEPT !.odist =
            MaxExtent(p.length, p.ostride, d - 1,
                      IF p.transform_type = "real_forward"
                      THEN ((p.length[d] \div 2) + 1) * p.ostride[d]
                      ELSE p.length[d] * p.ostride[d])]

compute_isize(p) ==
    LET val == compute_ptrdiff(ilength(p), p.istride, p.nbatch, p.idist) IN
    [p EXCEPT !.isize = [i \in 1..nibuffer(p) |-> val + p.ioffset[i]]]

compute_osize(p) ==
    LET val == compute_ptrdiff(olength(p), p.ostride, p.nbatch, p.odist) IN
    [p EXCEPT !.osize = [i \in 1..nobuffer(p) |-> val + p.ooffset[i]]]

samestride(p) ==
    \A i \in 1..Min(Len(p.istride), Len(p.ostride)) : p.istride[i] = p.ostride[i]

\* The in-place offset check of valid(): TRUE when the check passes.
check_offsets_nomatch(p) ==
    CASE IsComplexC2C(p.transform_type) -> p.ioffset[1] = p.ooffset[1]
      [] p.transform_type = "real_forward" -> p.ioffset[1] = 2 * p.ooffset[1]
      [] p.transform_type = "real_inverse" -> 2 * p.ioffset[1] = p.ooffset[1]

check_offsets(p) ==
    CASE IsComplexC2C(p.transform_type) ->
            \A i \in 1..nibuffer(p) : p.ioffset[i] = p.ooffset[i]
      [] p.transform_type = "real_forward" -> p.ioffset[1] = 2 * p.ooffset[1]
      [] p.transform_type = "real_inverse" -> 2 * p.ioffset[1] = p.ooffset[1]

\* valid(): "true", "false", or "throw" when check_iotypes throws.
valid(p) ==
    IF Len(p.ioffset) < nibuffer(p) \/ Len(p.ooffset) < nobuffer(p) THEN "false"
    ELSE IF /\ p.placement = "inplace"
            /\ \/ IsComplexC2C(p.transform_type) /\ ~samestride(p)
               \/ IsComplexC2C(p.transform_type) /\ p.idist # p.odist
               \/ /\ p.transform_type \in {"real_forward", "real_inverse"}
                  /\ (p.istride[Len(p.istride)] # 1 \/ p.ostride[Len(p.ostride)] # 1)
               \/ p.itype = "complex_interleaved" /\ p.otype = "complex_planar"
               \/ p.itype = "complex_planar" /\ p.otype = "complex_interleaved"
               \/ ~check_offsets(p)
    THEN "false"
    ELSE CASE check_iotypes(p) = "throw" -> "throw"
           [] check_iotypes(p) = "bad" -> "false"
           [] OTHER -> "true"

validate(p) ==
    compute_osize(compute_isize(set_odist(set_idist(
        compute_ostride(compute_istride(set_iotypes(p)))))))

(***************************************************************************)
(* The descriptors a caller can hand in: the public members of fft_params  *)
(* set to any values, strides given for no, some trailing or all axes.     *)
(***************************************************************************)
SeqsUpTo(S, n) == UNION {[1..k -> S] : k \in 0..n}

TypeChoices == TransformTypes \X Placements \X ArrayTypesOrUnset \X ArrayTypesOrUnset

Request(length, types, istride, ostride, nbatch, idist, odist, ioffset, ooffset) ==
    [length |-> length,
     istride |-> istride,
     ostride |-> ostride,
     nbatch |-> nbatch,
     transform_type |-> types[1],
     placement |-> types[2],
     idist |-> idist,
     odist |-> odist,
     itype |-> types[3],
     otype |-> types[4],
     ioffset |-> ioffset,
     ooffset |-> ooffset,
     isize |-> <<>>,
     osize |-> <<>>]

\* Strides for no axis or for every axis.
NoneOrAll(S, d) == {<<>>} \cup [1..d -> S]

ShortLengths == {<<MaxLen>>, <<2, MaxLen>>}
SmallStrides == {1, 2}
SmallDists == {0, 1}
OffsetVectors == {<<0, 0>>, <<0, 1>>, <<1, 1>>, <<2, 1>>}

\* In-place descriptors of every transform type and layout.
InitInPlace ==
    /\ \E l \in ShortLengths, t \in {c \in TypeChoices : c[2] = "inplace"} :
       \E is \in NoneOrAll(SmallStrides, Len(l)), os \in NoneOrAll(SmallStrides, Len(l)) :
       \E n \in 1..MaxBatch, id \in SmallDists, od \in SmallDists :
       \E io \in OffsetVectors, oo \in OffsetVectors :
          request = Request(l, t, is, os, n, id, od, io, oo)
    /\ params = request
    /\ phase = "raw"
    /\ CacheIdle
    /\ RunIdle
    /\ KernelIdle
    /\ GenIdle

\* Every combination of transform type, placement and layouts.
InitTypes ==
    /\ \E l \in ShortLengths, t \in TypeChoices :
       \E io \in OffsetVectors, oo \in OffsetVectors :
          request = Request(l, t, <<>>, <<>>, 1, 0, 0, io, oo)
    /\ params = request
    /\ phase = "raw"
    /\ CacheIdle
    /\ RunIdle
    /\ KernelIdle
    /\ GenIdle

\* Every length vector and every choice of supplied trailing strides.
InitStride ==
    /\ \E d \in 1..MaxDim, t \in TransformTypes \X Placements :
       \E l \in [1..d -> 1..MaxLen] :
       \E is \in SeqsUpTo(1..MaxStride, d), os \in SeqsUpTo(1..MaxStride, d) :
          request = Request(l, <<t[1], t[2], "unset", "unset">>, is, os, 1, 0, 0,
                            <<0, 0>>, <<0, 0>>)
    /\ params = request
    /\ phase = "raw"
    /\ CacheIdle
    /\ RunIdle
    /\ KernelIdle
    /\ GenIdle

\* validate(): fill in any missing parameters.
Validate ==
    /\ phase = "raw"
    /\ params' = validate(params)
    /\ phase' = "validated"
    /\ UNCHANGED <<request, cacheVars, runVars, kernel, genVars>>

\* valid(): the descriptor is accepted, rejected, or check_iotypes throws.
Valid ==
    /\ phase = "validated"
    /\ phase' = CASE valid(params) = "true" -> "accepted"
                  [] valid(params) = "false" -> "rejected"
                  [] OTHER -> "threw"
    /\ UNCHANGED <<request, params, cacheVars, runVars, kernel, genVars>>

\* The test body: only an accepted descriptor goes on to plan creation.
CreatePlan ==
    /\ phase = "accepted"
    /\ phase' = "planned"
    /\ UNCHANGED <<request, params, cacheVars, runVars, kernel, genVars>>

NextParams == Validate \/ Valid \/ CreatePlan

SpecInPlace == InitInPlace /\ [][NextParams]_vars
SpecTypes == InitTypes /\ [][NextParams]_vars
SpecStride == InitStride /\ [][NextParams]_vars

(***************************************************************************)
(* Claims about the transform descriptor.                                  *)
(***************************************************************************)
Accepted == phase \in {"accepted", "planned"}
LastLen == params.length[dim(params)]
PaddedLast == 2 * ((LastLen \div 2) + 1)

\* C1: an in-place complex-to-complex descriptor that valid() accepts (and
\* that reaches plan creation) has itype = otype, istride = ostride on every
\* axis, idist = odist and ioffset[i] = ooffset[i] for every input buffer i.
C1_InPlaceC2CIdentical ==
    (Accepted /\ params.placement = "inplace" /\ IsComplexC2C(params.transform_type))
        => /\ params.itype = params.otype
           /\ params.istride = params.ostride
           /\ params.idist = params.odist
           /\ \A i \in 1..nibuffer(params) : params.ioffset[i] = params.ooffset[i]

\* C1 witness: an in-place planar complex transform with non-zero offsets and
\* caller-supplied strides and distances has reached plan creation.
C1_Witness ==
    /\ phase = "planned"
    /\ params.placement = "inplace"
    /\ params.transform_type = "complex_inverse"
    /\ params.itype = "complex_planar"
    /\ params.ioffset = <<2, 1>>
    /\ request.istride = <<2, 2>>
    /\ request.idist = 1

\* The real side of a real/complex transform: the input of a forward
\* transform, the output of an inverse one.
RealStride == IF params.transform_type = "real_forward" THEN params.istride ELSE params.ostride
RealDist == IF params.transform_type = "real_forward" THEN params.idist ELSE params.odist

RealAxisCapacity ==
    IF dim(params) >= 2
    THEN RealStride[dim(params) - 1] >= PaddedLast
    ELSE params.nbatch > 1 => RealDist >= PaddedLast

LayoutsMatch ==
    \/ /\ params.transform_type = "real_forward"
       /\ params.itype = "real" /\ IsHermitianType(params.otype)
    \/ /\ params.transform_type = "real_inverse"
       /\ IsHermitianType(params.itype) /\ params.otype = "real"

\* C2: an in-place real-forward or real-inverse descriptor (of matching
\* layouts) that valid() accepts has stride 1 on the last axis of input and output, room for
\* 2*(L_last/2+1) real elements on the real axis (the next-outer stride, or
\* the batch distance for rank 1 when there is more than one batch), and
\* ioffset[0] = 2*ooffset[0] (forward) or 2*ioffset[0] = ooffset[0] (inverse).
C2_InPlaceRealRequirements ==
    (/\ Accepted
     /\ params.placement = "inplace"
     /\ params.transform_type \in {"real_forward", "real_inverse"}
     /\ LayoutsMatch)
        => /\ params.istride[dim(params)] = 1
           /\ params.ostride[dim(params)] = 1
           /\ RealAxisCapacity
           /\ params.transform_type = "real_forward"
                => params.ioffset[1] = 2 * params.ooffset[1]
           /\ params.transform_type = "real_inverse"
                => 2 * params.ioffset[1] = params.ooffset[1]

\* C3: a descriptor that valid() accepts has layouts that match its transform
\* type: complex transforms have complex input and output, real forward has
\* real input and hermitian output, real inverse hermitian input and real
\* output.
C3_LayoutsMatchTransform ==
    Accepted =>
        /\ IsComplexC2C(params.transform_type)
             => IsComplexType(params.itype) /\ IsComplexType(params.otype)
        /\ params.transform_type = "real_forward"
             => params.itype = "real" /\ IsHermitianType(params.otype)
        /\ params.transform_type = "real_inverse"
             => IsHermitianType(params.itype) /\ params.otype = "real"

\* The stride rule: supplied trailing strides are kept, a missing last-axis
\* stride is 1, and every other missing stride is the next stride times the
\* next length, the last length padded to 2*(L/2+1) when pad holds.
StrideRule(stride0, stride, length, pad) ==
    LET d == Len(length)
        s == Len(stride0)
    IN  /\ Len(stride) = d
        /\ \A i \in 1..d :
             IF i > d - s THEN stride[i] = stride0[i - (d - s)]
             ELSE IF i = d THEN stride[i] = 1
             ELSE stride[i] = stride[i + 1] *
                    (IF pad /\ i = d - 1 THEN 2 * ((length[d] \div 2) + 1)
                     ELSE length[i + 1])

InPlaceOf(t) == params.placement = "inplace" /\ params.transform_type = t

\* C4 as stated: after validate() the strides follow the stride rule, the
\* last length being padded only for an in-place real-forward transform.
C4_StrideRuleForwardOnly ==
    phase # "raw" =>
        /\ StrideRule(request.istride, params.istride, ilength(params),
                      InPlaceOf("real_forward"))
        /\ StrideRule(request.ostride, params.ostride, olength(params), FALSE)

\* C4 amended: after validate() the strides follow the stride rule over the
\* memory lengths (ilength for istride, olength for ostride), the last length
\* being padded for the input strides of an in-place real-forward transform
\* and for the output strides of an in-place real-inverse transform.
C4_StrideRule ==
    phase # "raw" =>
        /\ StrideRule(request.istride, params.istride, ilength(params),
                      InPlaceOf("real_forward"))
        /\ StrideRule(request.ostride, params.ostride, olength(params),
                      InPlaceOf("real_inverse"))

\* C4 witness: an in-place real-forward transform of rank 3 with only the
\* last input stride supplied has been validated, the padded length in the
\* stride of the axis before the last.
C4_Witness ==
    /\ phase = "validated"
    /\ InPlaceOf("real_forward")
    /\ dim(params) = 3
    /\ request.istride = <<2>>
    /\ params.length = <<2, 3, 3>>
    /\ params.istride = <<24, 8, 2>>

(***************************************************************************)
(* RTCCache: the cache of compiled code objects.  The table kernels has    *)
(* the primary key (kernel_name, arch, hip_version, generator_sum); a row  *)
(* is [key, code, timestamp].  Each call is a sequence of steps of the     *)
(* calling thread: lock the statement's mutex, bind, step, reset, return.  *)
(* ROCFFT_RTC_CACHE_MAX_BYTES is not set: no row is evicted.               *)
(***************************************************************************)
MaxTime == 1

\* The tables over the keys: at most one row per primary key.  A choice
\* gives each key no row (the empty tuple) or a code and a timestamp.
TableChoices(keys, maxtime) == [keys -> {<<>>} \cup (Codes \X (0..maxtime))]

TableOf(choice) ==
    {[key |-> k, code |-> choice[k][1], timestamp |-> choice[k][2]] :
        k \in {x \in DOMAIN choice : choice[x] # <<>>}}

\* A std::lock_guard can take the mutex when no thread holds it.
lock_guard_missing(mutex) == TRUE

lock_guard(mutex) == mutex = NoThread

\* SELECT code FROM kernels WHERE the four key columns equal the bound values
SelectCodeByName(kernels, k) ==
    LET rows == {r \in kernels : r.key.kernel_name = k.kernel_name}
    IN  IF rows = {} THEN EmptyCode ELSE (CHOOSE r \in rows : TRUE).code

SelectCode(kernels, k) ==
    LET rows == {r \in kernels :
                    /\ r.key.kernel_name = k.kernel_name
                    /\ r.key.gpu_arch = k.gpu_arch
                    /\ r.key.hip_version = k.hip_version
                    /\ r.key.generator_sum = k.generator_sum}
    IN  IF rows = {} THEN EmptyCode ELSE (CHOOSE r \in rows : TRUE).code

\* INSERT OR REPLACE INTO kernels VALUES (key, code, now)
InsertOrIgnore(kernels, k, code, ts) ==
    IF \E r \in kernels : r.key = k THEN kernels
    ELSE kernels \cup {[key |-> k, code |-> code, timestamp |-> ts]}

InsertOrReplace(kernels, k, code, ts) ==
    {r \in kernels : r.key # k} \cup {[key |-> k, code |-> code, timestamp |-> ts]}

\* deserialize merges: existing rows are kept, an incoming row with the key
\* of an existing row replaces it when its timestamp is newer.
MergeReplaceAlways(kernels, incoming) ==
    {r \in kernels : \A b \in incoming : b.key # r.key} \cup incoming

Merge(kernels, incoming) ==
    {r \in kernels : ~\E b \in incoming : b.key = r.key /\ b.timestamp > r.timestamp}
        \cup {b \in incoming :
                \A r \in kernels : r.key = b.key => b.timestamp > r.timestamp}

\* The last two codes stored to a key.
Remember(history, code) ==
    IF Len(history) < 2 THEN Append(history, code) ELSE <<history[2], code>>

CacheFresh ==
    /\ cache \in [enabled : BOOLEAN, kernels : {{}}]
    /\ now = 0
    /\ buffer = NoBuffer
    /\ get_stmt = Unbound
    /\ store_stmt = Unbound
    /\ get_mutex = NoThread
    /\ store_mutex = NoThread
    /\ deserialize_mutex = NoThread
    /\ attached = {}
    /\ pc = [t \in Threads |-> "idle"]
    /\ call = [t \in Threads |-> NoCall]
    /\ ret = [t \in Threads |-> NoResult]
    /\ puts = [k \in StoreKeys |-> <<>>]
    /\ ParamsIdle
    /\ RunIdle
    /\ KernelIdle
    /\ GenIdle

\* One thread of the process uses the cache.
InitCache == CacheFresh /\ active = {"t1"}

\* All threads of the process use the cache.
InitCacheThreads == CacheFresh /\ active = Threads

\* RTCCache(): a process opens a cache file that holds no kernels yet; a
\* file that cannot be opened leaves the cache disabled.
OpenFresh ==
    /\ \A t \in Threads : pc[t] = "idle"
    /\ \E e \in BOOLEAN : cache' = [enabled |-> e, kernels |-> {}]
    /\ puts' = [k \in StoreKeys |-> <<>>]
    /\ UNCHANGED <<now, buffer, get_stmt, store_stmt, get_mutex, store_mutex,
                   deserialize_mutex, attached, active, pc, call, ret,
                   paramVars, kernel, runVars, genVars>>

\* A second of wall-clock time passes.
Tick ==
    /\ now < MaxTime
    /\ now' = now + 1
    /\ UNCHANGED <<cache, buffer, get_stmt, store_stmt, get_mutex,
                   store_mutex, deserialize_mutex, attached, active, pc,
                   call, ret, puts, paramVars, kernel, runVars, genVars>>

\* A buffer serialized by another process, from its own cache, arrives.
ReceiveBuffer ==
    /\ \A t \in Threads : pc[t] = "idle"
    /\ \E choice \in TableChoices(StoreKeys, now) :
        buffer' = [present |-> TRUE, rows |-> TableOf(choice)]
    /\ UNCHANGED <<cache, now, get_stmt, store_stmt, get_mutex, store_mutex,
                   deserialize_mutex, attached, active, pc, call, ret, puts,
                   paramVars, kernel, runVars, genVars>>

\* get_code_object(kernel_name, gpu_arch, hip_version, generator_sum)
GetCall(t, k) ==
    /\ pc[t] = "idle"
    /\ cache.enabled
    /\ pc' = [pc EXCEPT ![t] = "get_lock"]
    /\ call' = [call EXCEPT ![t] = [NoCall EXCEPT !.op = "get", !.key = k]]
    /\ UNCHANGED <<cache, now, buffer, get_stmt, store_stmt, get_mutex,
                   store_mutex, deserialize_mutex, attached, active, ret,
                   puts, paramVars, kernel, runVars, genVars>>

\* a disabled cache has no statements: get misses
GetDisabled(t, k) ==
    /\ pc[t] = "idle"
    /\ ~cache.enabled
    /\ pc' = [pc EXCEPT ![t] = "get_return"]
    /\ call' = [call EXCEPT ![t] = [NoCall EXCEPT !.op = "get", !.key = k]]
    /\ ret' = [ret EXCEPT ![t] = [valid |-> TRUE, key |-> k, code |-> EmptyCode]]
    /\ UNCHANGED <<cache, now, buffer, get_stmt, store_stmt, get_mutex,
                   store_mutex, deserialize_mutex, attached, active, puts,
                   paramVars, kernel, runVars, genVars>>

GetLock(t) ==
    /\ pc[t] = "get_lock"
    /\ lock_guard(get_mutex)
    /\ get_mutex' = get_mutex \cup {t}
    /\ pc' = [pc EXCEPT ![t] = "get_bind"]
    /\ UNCHANGED <<cache, now, buffer, get_stmt, store_stmt, store_mutex,
                   deserialize_mutex, attached, active, call, ret, puts,
                   paramVars, kernel, runVars, genVars>>

GetBind(t) ==
    /\ pc[t] = "get_bind"
    /\ get_stmt' = [owner |-> {t}, key |-> call[t].key, code |-> EmptyCode]
    /\ pc' = [pc EXCEPT ![t] = "get_step"]
    /\ UNCHANGED <<cache, now, buffer, store_stmt, get_mutex, store_mutex,
                   deserialize_mutex, attached, active, call, ret, puts,
                   paramVars, kernel, runVars, genVars>>

GetStep(t) ==
    /\ pc[t] = "get_step"
    /\ ret' = [ret EXCEPT ![t] =
                 [valid |-> TRUE, key |-> call[t].key,
                  code |-> IF get_stmt.owner = NoThread THEN EmptyCode
                           ELSE SelectCode(cache.kernels, get_stmt.key)]]
    /\ pc' = [pc EXCEPT ![t] = "get_reset"]
    /\ UNCHANGED <<cache, now, buffer, get_stmt, store_stmt, get_mutex,
                   store_mutex, deserialize_mutex, attached, active, call,
                   puts, paramVars, kernel, runVars, genVars>>

GetReset(t) ==
    /\ pc[t] = "get_reset"
    /\ get_stmt' = Unbound
    /\ get_mutex' = get_mutex \ {t}
    /\ pc' = [pc EXCEPT ![t] = "get_return"]
    /\ UNCHANGED <<cache, now, buffer, store_stmt, store_mutex,
                   deserialize_mutex, attached, active, call, ret, puts,
                   paramVars, kernel, runVars, genVars>>

GetReturn(t) ==
    /\ pc[t] = "get_return"
    /\ pc' = [pc EXCEPT ![t] = "idle"]
    /\ call' = [call EXCEPT ![t] = NoCall]
    /\ ret' = [ret EXCEPT ![t] = NoResult]
    /\ UNCHANGED <<cache, now, buffer, get_stmt, store_stmt, get_mutex,
                   store_mutex, deserialize_mutex, attached, active, puts,
                   paramVars, kernel, runVars, genVars>>

\* store_code_object(kernel_name, gpu_arch, hip_version, generator_sum, code)
StoreCall(t, k, c) ==
    /\ pc[t] = "idle"
    /\ cache.enabled
    /\ pc' = [pc EXCEPT ![t] = "store_lock"]
    /\ call' = [call EXCEPT ![t] = [NoCall EXCEPT !.op = "store", !.key = k, !.code = c]]
    /\ UNCHANGED <<cache, now, buffer, get_stmt, store_stmt, get_mutex,
                   store_mutex, deserialize_mutex, attached, active, ret,
                   puts, paramVars, kernel, runVars, genVars>>

\* a disabled cache has no statements: store does nothing
StoreDisabled(t, k, c) ==
    /\ pc[t] = "idle"
    /\ ~cache.enabled
    /\ pc' = [pc EXCEPT ![t] = "store_return"]
    /\ call' = [call EXCEPT ![t] = [NoCall EXCEPT !.op = "store", !.key = k, !.code = c]]
    /\ puts' = [puts EXCEPT ![k] = Remember(@, c)]
    /\ UNCHANGED <<cache, now, buffer, get_stmt, store_stmt, get_mutex,
                   store_mutex, deserialize_mutex, attached, active, ret,
                   paramVars, kernel, runVars, genVars>>

StoreLock(t) ==
    /\ pc[t] = "store_lock"
    /\ lock_guard(store_mutex)
    /\ store_mutex' = store_mutex \cup {t}
    /\ pc' = [pc EXCEPT ![t] = "store_bind"]
    /\ UNCHANGED <<cache, now, buffer, get_stmt, store_stmt, get_mutex,
                   deserialize_mutex, attached, active, call, ret, puts,
                   paramVars, kernel, runVars, genVars>>

StoreBind(t) ==
    /\ pc[t] = "store_bind"
    /\ store_stmt' = [owner |-> {t}, key |-> call[t].key, code |-> call[t].code]
    /\ pc' = [pc EXCEPT ![t] = "store_step"]
    /\ UNCHANGED <<cache, now, buffer, get_stmt, get_mutex, store_mutex,
                   deserialize_mutex, attached, active, call, ret, puts,
                   paramVars, kernel, runVars, genVars>>

StoreStep(t) ==
    /\ pc[t] = "store_step"
    /\ IF store_stmt.owner = NoThread
       THEN UNCHANGED cache
       ELSE cache' = [cache EXCEPT !.kernels =
                        InsertOrReplace(@, store_stmt.key, store_stmt.code, now)]
    /\ puts' = [puts EXCEPT ![call[t].key] = Remember(@, call[t].code)]
    /\ pc' = [pc EXCEPT ![t] = "store_reset"]
    /\ UNCHANGED <<now, buffer, get_stmt, store_stmt, get_mutex, store_mutex,
                   deserialize_mutex, attached, active, call, ret, paramVars, kernel, runVars, genVars>>

StoreReset(t) ==
    /\ pc[t] = "store_reset"
    /\ store_stmt' = Unbound
    /\ store_mutex' = store_mutex \ {t}
    /\ pc' = [pc EXCEPT ![t] = "store_return"]
    /\ UNCHANGED <<cache, now, buffer, get_stmt, get_mutex,
                   deserialize_mutex, attached, active, call, ret, puts,
                   paramVars, kernel, runVars, genVars>>

StoreReturn(t) ==
    /\ pc[t] = "store_return"
    /\ pc' = [pc EXCEPT ![t] = "idle"]
    /\ call' = [call EXCEPT ![t] = NoCall]
    /\ UNCHANGED <<cache, now, buffer, get_stmt, store_stmt, get_mutex,
                   store_mutex, deserialize_mutex, attached, active, ret,
                   puts, paramVars, kernel, runVars, genVars>>

\* serialize(&buffer, &buffer_len_bytes): the whole table as one blob.
Serialize(t) ==
    /\ pc[t] = "idle"
    /\ cache.enabled
    /\ \A u \in Threads : call[u].op # "deserialize"
    /\ buffer' = [present |-> TRUE, rows |-> cache.kernels]
    /\ UNCHANGED <<cache, now, get_stmt, store_stmt, get_mutex, store_mutex,
                   deserialize_mutex, attached, active, pc, call, ret, puts,
                   paramVars, kernel, runVars, genVars>>

\* deserialize(buffer, buffer_len_bytes)
DeserializeCall(t) ==
    /\ pc[t] = "idle"
    /\ buffer.present
    /\ cache.enabled
    /\ pc' = [pc EXCEPT ![t] = "deserialize_lock"]
    /\ call' = [call EXCEPT ![t] =
                  [NoCall EXCEPT !.op = "deserialize", !.rows = buffer.rows,
                                 !.status = IF cache.kernels = {} THEN "fresh"
                                            ELSE IF cache.kernels = buffer.rows THEN "same"
                                            ELSE "other"]]
    /\ UNCHANGED <<cache, now, buffer, get_stmt, store_stmt, get_mutex,
                   store_mutex, deserialize_mutex, attached, active, ret,
                   puts, paramVars, kernel, runVars, genVars>>

\* deserialize on a disabled cache fails and changes nothing.
DeserializeDisabled(t) ==
    /\ pc[t] = "idle"
    /\ buffer.present
    /\ ~cache.enabled
    /\ pc' = [pc EXCEPT ![t] = "deserialize_return"]
    /\ call' = [call EXCEPT ![t] =
                  [NoCall EXCEPT !.op = "deserialize", !.rows = buffer.rows,
                                 !.status = "fresh"]]
    /\ UNCHANGED <<cache, now, buffer, get_stmt, store_stmt, get_mutex,
                   store_mutex, deserialize_mutex, attached, active, ret,
                   puts, paramVars, kernel, runVars, genVars>>

DeserializeLock(t) ==
    /\ pc[t] = "deserialize_lock"
    /\ lock_guard(deserialize_mutex)
    /\ deserialize_mutex' = deserialize_mutex \cup {t}
    /\ pc' = [pc EXCEPT ![t] = "deserialize_attach"]
    /\ UNCHANGED <<cache, now, buffer, get_stmt, store_stmt, get_mutex,
                   store_mutex, attached, active, call, ret, puts, paramVars, kernel, runVars, genVars>>

\* ATTACH the buffer as the schema "deserialized"
DeserializeAttachUnlocked(t) ==
    /\ pc[t] = "deserialize_attach"
    /\ attached' = attached \cup {t}
    /\ deserialize_mutex' = deserialize_mutex \ {t}
    /\ pc' = [pc EXCEPT ![t] = "deserialize_merge"]
    /\ UNCHANGED <<cache, now, buffer, get_stmt, store_stmt, get_mutex, store_mutex,
                   active, call, ret, puts, paramVars, kernel, runVars, genVars>>

DeserializeAttach(t) ==
    /\ pc[t] = "deserialize_attach"
    /\ attached' = attached \cup {t}
    /\ pc' = [pc EXCEPT ![t] = "deserialize_merge"]
    /\ UNCHANGED <<cache, now, buffer, get_stmt, store_stmt, get_mutex,
                   store_mutex, deserialize_mutex, active, call, ret, puts,
                   paramVars, kernel, runVars, genVars>>

DeserializeMerge(t) ==
    /\ pc[t] = "deserialize_merge"
    /\ cache' = [cache EXCEPT !.kernels = Merge(@, call[t].rows)]
    /\ puts' = [k \in StoreKeys |->
                  IF \E r \in cache.kernels : r.key = k /\ r \notin cache'.kernels
                  THEN <<>> ELSE puts[k]]
    /\ pc' = [pc EXCEPT ![t] = "deserialize_detach"]
    /\ UNCHANGED <<now, buffer, get_stmt, store_stmt, get_mutex, store_mutex,
                   deserialize_mutex, attached, active, call, ret, paramVars, kernel, runVars, genVars>>

\* DETACH, and the lock_guard releases deserialize_mutex
DeserializeDetach(t) ==
    /\ pc[t] = "deserialize_detach"
    /\ attached' = attached \ {t}
    /\ deserialize_mutex' = deserialize_mutex \ {t}
    /\ pc' = [pc EXCEPT ![t] = "deserialize_return"]
    /\ UNCHANGED <<cache, now, buffer, get_stmt, store_stmt, get_mutex,
                   store_mutex, active, call, ret, puts, paramVars, kernel, runVars, genVars>>

DeserializeReturn(t) ==
    /\ pc[t] = "deserialize_return"
    /\ pc' = [pc EXCEPT ![t] = "idle"]
    /\ call' = [call EXCEPT ![t] = NoCall]
    /\ UNCHANGED <<cache, now, buffer, get_stmt, store_stmt, get_mutex,
                   store_mutex, deserialize_mutex, attached, active, ret,
                   puts, paramVars, kernel, runVars, genVars>>

\* One caller, any arguments.
AnyStore == StoreKeys \X Codes

NextCache ==
    \/ OpenFresh
    \/ Tick
    \/ ReceiveBuffer
    \/ \E t \in active, k \in LookupKeys : GetCall(t, k)
    \/ \E t \in active, k \in LookupKeys : GetDisabled(t, k)
    \/ \E t \in active, a \in AnyStore : StoreCall(t, a[1], a[2])
    \/ \E t \in active, a \in AnyStore : StoreDisabled(t, a[1], a[2])
    \/ \E t \in active : GetLock(t)
    \/ \E t \in active : GetBind(t)
    \/ \E t \in active : GetStep(t)
    \/ \E t \in active : GetReset(t)
    \/ \E t \in active : GetReturn(t)
    \/ \E t \in active : StoreLock(t)
    \/ \E t \in active : StoreBind(t)
    \/ \E t \in active : StoreStep(t)
    \/ \E t \in active : StoreReset(t)
    \/ \E t \in active : StoreReturn(t)
    \/ \E t \in active : Serialize(t)
    \/ \E t \in active : DeserializeCall(t)
    \/ \E t \in active : DeserializeDisabled(t)
    \/ \E t \in active : DeserializeLock(t)
    \/ \E t \in active : DeserializeAttach(t)
    \/ \E t \in active : DeserializeMerge(t)
    \/ \E t \in active : DeserializeDetach(t)
    \/ \E t \in active : DeserializeReturn(t)

SpecCache == InitCache /\ [][NextCache]_vars

\* Threads that each store their own kernel and look both up.
OwnStore == {<<KeyA, <<1>>>>, <<KeyB, <<2>>>>}

NextCacheThreads ==
    \/ OpenFresh
    \/ \E t \in active, k \in StoreKeys : GetCall(t, k)
    \/ \E t \in active, k \in StoreKeys : GetDisabled(t, k)
    \/ \E t \in active, a \in OwnStore : StoreCall(t, a[1], a[2])
    \/ \E t \in active, a \in OwnStore : StoreDisabled(t, a[1], a[2])
    \/ \E t \in active : GetLock(t)
    \/ \E t \in active : GetBind(t)
    \/ \E t \in active : GetStep(t)
    \/ \E t \in active : GetReset(t)
    \/ \E t \in active : GetReturn(t)
    \/ \E t \in active : StoreLock(t)
    \/ \E t \in active : StoreBind(t)
    \/ \E t \in active : StoreStep(t)
    \/ \E t \in active : StoreReset(t)
    \/ \E t \in active : StoreReturn(t)
    \/ \E t \in active : Serialize(t)
    \/ \E t \in active : DeserializeCall(t)
    \/ \E t \in active : DeserializeDisabled(t)
    \/ \E t \in active : DeserializeLock(t)
    \/ \E t \in active : DeserializeAttach(t)
    \/ \E t \in active : DeserializeMerge(t)
    \/ \E t \in active : DeserializeDetach(t)
    \/ \E t \in active : DeserializeReturn(t)

SpecCacheThreads == InitCacheThreads /\ [][NextCacheThreads]_vars

(***************************************************************************)
(* Claims about the RTC cache.                                             *)
(***************************************************************************)
SameKey(r, k) ==
    /\ r.key.kernel_name = k.kernel_name
    /\ r.key.gpu_arch = k.gpu_arch
    /\ r.key.hip_version = k.hip_version
    /\ r.key.generator_sum = k.generator_sum

\* C5: a get_code_object that is about to return gives the code of the entry
\* whose four key fields all equal its arguments, and the empty vector when
\* no entry matches on all four.
C5_GetMatchesAllFourKeyFields ==
    \A t \in active :
        pc[t] = "get_return" =>
            /\ ret[t].valid
            /\ ret[t].key = call[t].key
            /\ \A r \in cache.kernels : SameKey(r, call[t].key) => ret[t].code = r.code
            /\ (~\E r \in cache.kernels : SameKey(r, call[t].key)) => ret[t].code = EmptyCode

\* a get misses on the toolchain version alone: the entry of the same name,
\* arch and generator hash is in the cache
C5_Witness ==
    /\ pc["t1"] = "get_return"
    /\ call["t1"].key = [KeyA EXCEPT !.hip_version = 2]
    /\ ret["t1"].code = EmptyCode
    /\ \E r \in cache.kernels : r.key = KeyA

LastPut(k) == puts[k][Len(puts[k])]

C7_GetStoreSerializable ==
    /\ \A t \in active :
        /\ pc[t] \in {"get_bind", "get_step", "get_reset"} => get_mutex = {t}
        /\ pc[t] \in {"store_bind", "store_step", "store_reset"} => store_mutex = {t}
        /\ pc[t] = "get_step" => get_stmt.owner = {t} /\ get_stmt.key = call[t].key
        /\ pc[t] = "store_step" =>
              /\ store_stmt.owner = {t}
              /\ store_stmt.key = call[t].key
              /\ store_stmt.code = call[t].code
        /\ pc[t] \in {"get_reset", "get_return"} =>
              \/ ret[t].code = EmptyCode
              \/ <<call[t].key, ret[t].code>> \in OwnStore
    /\ \A r \in cache.kernels : <<r.key, r.code>> \in OwnStore

\* one thread steps its get of KeyA while the other waits for get_mutex with
\* a get of KeyB, and a store runs beside a get
C7_Witness ==
    /\ pc["t1"] = "get_step"
    /\ call["t1"].key = KeyA
    /\ pc["t2"] = "get_lock"
    /\ call["t2"].key = KeyB
    /\ cache.kernels # {}

DeserializeRunning == {"deserialize_attach", "deserialize_merge", "deserialize_detach"}
StatementRunning ==
    {"get_bind", "get_step", "get_reset", "store_bind", "store_step", "store_reset"}

\* C8 as stated: while a deserialize runs no other deserialize, get or store
\* runs against the database, and the attached schema is never there twice.
C8_DeserializeExcludesAll ==
    /\ \A t, u \in active :
        (t # u /\ pc[t] \in DeserializeRunning)
            => pc[u] \notin (DeserializeRunning \cup StatementRunning)
    /\ Cardinality(attached) <= 1

\* C8, amended: while a deserialize runs no other deserialize runs, and the
\* attached schema is never there twice (get and store take their own
\* mutexes only).
C8_DeserializeExcludesDeserialize ==
    /\ \A t, u \in active :
        (t # u /\ pc[t] \in DeserializeRunning) => pc[u] \notin DeserializeRunning
    /\ Cardinality(attached) <= 1
    /\ \A t \in active : pc[t] \in DeserializeRunning => deserialize_mutex = {t}

\* one thread merges while the other waits for deserialize_mutex
C8_Witness ==
    /\ pc["t1"] = "deserialize_merge"
    /\ pc["t2"] = "deserialize_lock"
    /\ attached = {"t1"}

Retrievable(rows) ==
    \A b \in rows : \E r \in cache.kernels : SameKey(r, b.key) /\ r.code = b.code

MergeStep(t) == pc[t] = "deserialize_merge" /\ pc'[t] = "deserialize_detach"

\* the merge keeps every row or replaces it by an incoming row of its key
\* with a newer timestamp, and adds only incoming rows
MergeRule ==
    \A t \in active :
        MergeStep(t) =>
            /\ \A r \in cache.kernels :
                \/ r \in cache'.kernels
                \/ \E b \in call[t].rows :
                    /\ b.key = r.key
                    /\ b.timestamp > r.timestamp
                    /\ b \in cache'.kernels
            /\ cache'.kernels \subseteq (cache.kernels \cup call[t].rows)
            /\ \A b \in call[t].rows : \E r \in cache'.kernels : r.key = b.key

Layouts == {"interleaved", "planar"}
Precisions == {"float2", "double2"}
CallbackTypes == {"NONE", "USER_LOAD_STORE"}
Radices == {2}
Offsets == {0, 1}
Strides == {1, 2}
Components == {0, 1}
Complexes == Components \X Components
Zero == <<0, 0>>

\* get_load_cb<T, cbtype>(load_cb_fn): the user's function when the kernel
\* is instantiated with USER_LOAD_STORE, else the default load
get_load_cb(cbtype, load_cb_fn) ==
    IF cbtype = "USER_LOAD_STORE" THEN load_cb_fn ELSE "load_cb_default"

get_store_cb(cbtype, store_cb_fn) ==
    IF cbtype = "USER_LOAD_STORE" THEN store_cb_fn ELSE "store_cb_default"

interleaved(in) == [C |-> in, R |-> <<>>, I |-> <<>>]

planar(r_in, i_in) == [C |-> <<>>, R |-> r_in, I |-> i_in]

\* Handler<interleaved<float2>, cbtype> and Handler<interleaved<double2>, cbtype>
Handler_interleaved_read(cbtype, in, idx, load_cb_fn) ==
    LET load_cb == get_load_cb(cbtype, load_cb_fn)
    IN  [t |-> in.C[idx + 1], calls |-> <<[fn |-> load_cb, idx |-> idx]>>]

Handler_interleaved_write(cbtype, out, idx, v, store_cb_fn) ==
    LET store_cb == get_store_cb(cbtype, store_cb_fn)
    IN  [out |-> [out EXCEPT !.C[idx + 1] = v],
         calls |-> <<[fn |-> store_cb, idx |-> idx]>>]

\* Handler<planar<float2>, cbtype> and Handler<planar<double2>, cbtype>
Handler_planar_read(cbtype, in, idx, load_cb_fn) ==
    [t |-> <<in.R[idx + 1], in.I[idx + 1]>>, calls |-> <<>>]

Handler_planar_write(cbtype, out, idx, v, store_cb_fn) ==
    [out |-> [out EXCEPT !.R[idx + 1] = v[1], !.I[idx + 1] = v[2]], calls |-> <<>>]

Handler_read(layout, cbtype, in, idx, load_cb_fn) ==
    IF layout = "interleaved"
    THEN Handler_interleaved_read(cbtype, in, idx, load_cb_fn)
    ELSE Handler_planar_read(cbtype, in, idx, load_cb_fn)

Handler_write(layout, cbtype, out, idx, v, store_cb_fn) ==
    IF layout = "interleaved"
    THEN Handler_interleaved_write(cbtype, out, idx, v, store_cb_fn)
    ELSE Handler_planar_write(cbtype, out, idx, v, store_cb_fn)

\* the buffer of a layout holding the complex values a
Buffer(layout, a) ==
    IF layout = "interleaved" THEN interleaved(a)
    ELSE planar([i \in DOMAIN a |-> a[i][1]], [i \in DOMAIN a |-> a[i][2]])

\* load_global_generator: the index of the w-th load of a thread
load_global_index(k, thread, w) ==
    LET tid == thread
        idx == tid + ((w * k.length) \div k.width)
    IN  k.offset + idx * k.stride0

\* store_global_generator: the index of the w-th store of a thread
store_global_index(k, thread, w, cumheight) ==
    LET tid == thread
    IN  k.offset + ((tid \div cumheight) * (k.width * cumheight)
                        + (tid % cumheight) + w * cumheight) * k.stride0

BufferLen(offset, stride0, length) == offset + (length - 1) * stride0 + 1

InitKernel ==
    /\ \E layout \in Layouts, precision \in Precisions, cbtype \in CallbackTypes,
          width \in Radices, offset \in Offsets, stride0 \in Strides :
        \E a \in [1..BufferLen(offset, stride0, width) -> Complexes] :
            kernel = [pc |-> "load",
                      layout |-> layout, precision |-> precision, cbtype |-> cbtype,
                      length |-> width, width |-> width,
                      offset |-> offset, stride0 |-> stride0,
                      in |-> Buffer(layout, a),
                      out |-> Buffer(layout, [i \in DOMAIN a |-> Zero]),
                      R |-> [w \in 1..width |-> Zero],
                      w |-> 0,
                      reads |-> <<>>, writes |-> <<>>,
                      load_calls |-> <<>>, store_calls |-> <<>>]
    /\ ParamsIdle
    /\ CacheIdle
    /\ RunIdle
    /\ GenIdle

\* R[w] = LoadGlobal(buf, offset + idx * stride0)
LoadGlobal ==
    /\ kernel.pc = "load"
    /\ LET w == kernel.w
           idx == load_global_index(kernel, 0, w)
           h == Handler_read(kernel.layout, kernel.cbtype, kernel.in, idx, "load_cb_fn")
       IN  kernel' = [kernel EXCEPT
                        !.R[w + 1] = h.t,
                        !.reads = Append(@, idx),
                        !.load_calls = @ \o h.calls,
                        !.w = IF w + 1 < kernel.width THEN w + 1 ELSE 0,
                        !.pc = IF w + 1 < kernel.width THEN "load" ELSE "store"]
    /\ UNCHANGED <<paramVars, cacheVars, runVars, genVars>>

\* StoreGlobal(buf, idx, R[w])
StoreGlobal ==
    /\ kernel.pc = "store"
    /\ LET w == kernel.w
           idx == store_global_index(kernel, 0, w, kernel.length \div kernel.width)
           h == Handler_write(kernel.layout, kernel.cbtype, kernel.out, idx,
                              kernel.R[w + 1], "store_cb_fn")
       IN  kernel' = [kernel EXCEPT
                        !.out = h.out,
                        !.writes = Append(@, idx),
                        !.store_calls = @ \o h.calls,
                        !.w = IF w + 1 < kernel.width THEN w + 1 ELSE 0,
                        !.pc = IF w + 1 < kernel.width THEN "store" ELSE "done"]
    /\ UNCHANGED <<paramVars, cacheVars, runVars, genVars>>

NextKernel == LoadGlobal \/ StoreGlobal

SpecKernel == InitKernel /\ [][NextKernel]_vars

(***************************************************************************)
(* Claims about the callbacks.                                             *)
(***************************************************************************)
CallsOf(calls, fn) ==
    [i \in DOMAIN calls |-> IF calls[i].fn = fn THEN <<calls[i].idx>> ELSE <<>>]

RECURSIVE Flatten(_)
Flatten(ss) == IF ss = <<>> THEN <<>> ELSE Head(ss) \o Flatten(Tail(ss))

\* C10: in a kernel instantiated with USER_LOAD_STORE, every read of the
\* global input is a call of the user's load callback and every write of the
\* global output is a call of the user's store callback, for interleaved and
\* planar buffers alike.
C10_UserCallbacksWrapEveryAccess ==
    (kernel.pc # "idle" /\ kernel.cbtype = "USER_LOAD_STORE") =>
        /\ Flatten(CallsOf(kernel.load_calls, "load_cb_fn")) = kernel.reads
        /\ Flatten(CallsOf(kernel.store_calls, "store_cb_fn")) = kernel.writes

(***************************************************************************)
(* The device calls (devicecall.cpp).  A device function receives a        *)
(* DeviceCallIn, data, for one plan node and launches the node's kernel;   *)
(* a launch is recorded with the template argument and the buffers the     *)
(* device function passes, in the order it passes them.                    *)
(***************************************************************************)
Directions == {-1, 1}

\* The template argument of a kernel launched without one.
NoDirection == 0

UserBuffers == {"user_in", "user_out"}
ScratchBuffers == {"tmp0", "tmp1"}

InPlaceFunctions ==
    {"POW2_SMALL_IP_A", "POW2_SMALL_IP_B", "POW2_SMALL_IP_C", "POW2_SMALL_IP_2_C"}

OutOfPlaceFunctions ==
    {"POW2_LARGE_BCC_A", "POW2_LARGE_BRC_A", "POW2_SMALL_OP_2_C"}

DeviceFunctions == InPlaceFunctions \cup OutOfPlaceFunctions

\* DNAME<-1> when the node's direction is -1, DNAME<1> otherwise.
TemplateDirection(data) == IF data.node.direction = -1 THEN -1 ELSE 1

POW2_SMALL_IP_A(data) ==
    [kernel |-> data.node.fn, direction |-> NoDirection, buffers |-> <<data.bufIn>>]

POW2_SMALL_IP_B(data) ==
    [kernel |-> data.node.fn, direction |-> TemplateDirection(data),
     buffers |-> <<data.bufIn>>]

POW2_SMALL_IP_C(data) ==
    [kernel |-> data.node.fn, direction |-> TemplateDirection(data),
     buffers |-> <<data.bufIn>>]

POW2_LARGE_BCC_A(data) ==
    [kernel |-> data.node.fn, direction |-> TemplateDirection(data),
     buffers |-> <<data.bufIn, data.bufOut>>]

POW2_LARGE_BRC_A(data) ==
    [kernel |-> data.node.fn, direction |-> TemplateDirection(data),
     buffers |-> <<data.bufIn, data.bufOut>>]

POW2_SMALL_IP_2_C(data) ==
    [kernel |-> data.node.fn, direction |-> TemplateDirection(data),
     buffers |-> <<data.bufIn>>]

POW2_SMALL_OP_2_C_aliased(data) ==
    [kernel |-> data.node.fn, direction |-> TemplateDirection(data),
     buffers |-> <<data.bufIn, data.bufIn>>]

POW2_SMALL_OP_2_C(data) ==
    [kernel |-> data.node.fn, direction |-> TemplateDirection(data),
     buffers |-> <<data.bufIn, data.bufOut>>]

\* The call through the node's device function pointer.
DeviceCall(data) ==
    CASE data.node.fn = "POW2_SMALL_IP_A" -> POW2_SMALL_IP_A(data)
      [] data.node.fn = "POW2_SMALL_IP_B" -> POW2_SMALL_IP_B(data)
      [] data.node.fn = "POW2_SMALL_IP_C" -> POW2_SMALL_IP_C(data)
      [] data.node.fn = "POW2_LARGE_BCC_A" -> POW2_LARGE_BCC_A(data)
      [] data.node.fn = "POW2_LARGE_BRC_A" -> POW2_LARGE_BRC_A(data)
      [] data.node.fn = "POW2_SMALL_IP_2_C" -> POW2_SMALL_IP_2_C(data)
      [] data.node.fn = "POW2_SMALL_OP_2_C" -> POW2_SMALL_OP_2_C(data)

\* The buffer a launched kernel reads and the buffer it writes: a kernel
\* that is passed one data buffer has no other buffer to write.
InputOf(record) == record.buffers[1]
OutputOf(record) == record.buffers[Len(record.buffers)]

(***************************************************************************)
(* The execution schedule.  The traversal of the plan gives each node the  *)
(* buffer the node before it wrote; an out-of-place node that is not the   *)
(* last writes the scratch buffer it does not read, the last node writes   *)
(* the user's output.                                                      *)
(***************************************************************************)
MaxNodes == 2

Nodes == [fn : DeviceFunctions, direction : Directions]

Plans == UNION {[1..n -> Nodes] : n \in 1..MaxNodes}

UserOutput(placement) == IF placement = "inplace" THEN "user_in" ELSE "user_out"

OtherScratch(b) == IF b = "tmp0" THEN "tmp1" ELSE "tmp0"

RECURSIVE AssignBuffers(_, _, _, _)
AssignBuffers(plan, placement, i, cur) ==
    IF i > Len(plan) THEN <<>>
    ELSE LET out == IF plan[i].fn \in InPlaceFunctions THEN cur
                    ELSE IF i = Len(plan) THEN UserOutput(placement)
                    ELSE OtherScratch(cur)
         IN  <<[node |-> plan[i], bufIn |-> cur, bufOut |-> out]>>
                 \o AssignBuffers(plan, placement, i + 1, out)

Schedule(plan, placement) == AssignBuffers(plan, placement, 1, "user_in")

\* InvalidConfig: the chosen scheme leaves the result outside the user's
\* output, or has an out-of-place kernel write the buffer it reads.
InvalidConfig(plan, placement) ==
    LET s == Schedule(plan, placement) IN
    \/ s[Len(s)].bufOut # UserOutput(placement)
    \/ \E i \in DOMAIN s :
          s[i].node.fn \in OutOfPlaceFunctions /\ s[i].bufIn = s[i].bufOut

InitSchedule ==
    /\ \E plan \in Plans, placement \in Placements :
          /\ ~InvalidConfig(plan, placement)
          /\ sched = [pc |-> "scheduled", placement |-> placement,
                      schedule |-> Schedule(plan, placement),
                      next |-> 1, launches |-> <<>>]
    /\ ParamsIdle
    /\ CacheIdle
    /\ RunIdle
    /\ KernelIdle
    /\ KernelGenIdle
    /\ DeviceIdle

\* The executor calls the device function of the next record.
Launch ==
    /\ sched.pc = "scheduled"
    /\ sched.next <= Len(sched.schedule)
    /\ sched' = [sched EXCEPT
                    !.launches = Append(@, DeviceCall(sched.schedule[sched.next])),
                    !.next = @ + 1]
    /\ UNCHANGED <<paramVars, cacheVars, runVars, kernel, gen, dev>>

\* The executor returns after the last record.
Executed ==
    /\ sched.pc = "scheduled"
    /\ sched.next > Len(sched.schedule)
    /\ sched' = [sched EXCEPT !.pc = "executed"]
    /\ UNCHANGED <<paramVars, cacheVars, runVars, kernel, gen, dev>>

NextSchedule == Launch \/ Executed

SpecSchedule == InitSchedule /\ [][NextSchedule]_vars

(***************************************************************************)
(* Claims about the launches.                                              *)
(***************************************************************************)
Launched == IF sched.pc = "idle" THEN {} ELSE {sched.launches[i] : i \in DOMAIN sched.launches}

KernelLengths == {1, 2, 3, 4, 6, 8, 9, 16, 17, 35}
WorkGroupSizes == {1, 2, 3, 4, 64}
NumTransforms == {1, 2, 4}
MaxWorkGroupSizes == {64, 256}

\* The passes a construction may create before the model stops following it.
MaxPasses == 4

\* radix_table.h: the tabulated radix sequences.
GetRecord ==
    {[length |-> 16, radices |-> <<4, 4>>],
     [length |-> 8, radices |-> <<4, 2>>],
     [length |-> 4, radices |-> <<2, 2>>],
     [length |-> 2, radices |-> <<2>>]}

\* KernelCoreSpecs::GetRadices: the radices of the record of this length,
\* none when there is no such record.
GetRadices(length) ==
    IF \E rec \in GetRecord : rec.length = length
    THEN (CHOOSE rec \in GetRecord : rec.length = length).radices
    ELSE <<>>

\* Possible radices, in descending order.
cRad == <<13, 11, 10, 8, 7, 6, 5, 4, 3, 2, 1>>

\* The for loop over cRad: the first radix that is neither skipped
\* (rad > cnPerWI, or cnPerWI % rad) nor fails to divide R.
PickRadix(cnPerWI, R) ==
    LET Fits(r) == ~(cRad[r] > cnPerWI \/ cnPerWI % cRad[r] # 0) /\ R % cRad[r] = 0
        first == CHOOSE r \in DOMAIN cRad :
                    Fits(r) /\ \A q \in 1..(r - 1) : ~Fits(q)
    IN  cRad[first]

\* Pass<PR>(pid, length, rad, cnPerWI, L, LS, R, ...)
Pass(pid, length, rad, cnPerWI, L, LS, R) ==
    [position |-> pid, length |-> length, radix |-> rad, cnPerWI |-> cnPerWI,
     L |-> L, LS |-> LS, R |-> R]

KernelParams ==
    [fft_N : KernelLengths, fft_workGroupSize : WorkGroupSizes,
     fft_numTrans : NumTransforms, fft_MaxWorkGroupSize : MaxWorkGroupSizes]

InitRadix ==
    /\ \E p \in KernelParams :
          gen = [pc |-> "constructing", params |-> p, length |-> p.fft_N,
                 cnPerWI |-> 0, workGroupSizePerTrans |-> 0,
                 LS |-> 1, R |-> p.fft_N, pid |-> 0,
                 radices |-> <<>>, passes |-> <<>>, numPasses |-> 0,
                 tabulated |-> FALSE]
    /\ ParamsIdle
    /\ CacheIdle
    /\ RunIdle
    /\ KernelIdle
    /\ SchedIdle
    /\ DeviceIdle

\* The constructor up to the breakdown: the assertions on the sizes and the
\* look-up of the radices.
KernelSizes ==
    /\ gen.pc = "constructing"
    /\ LET length == gen.length
           workGroupSize == gen.params.fft_workGroupSize
           numTrans == gen.params.fft_numTrans
           cnPerWI == (numTrans * length) \div workGroupSize
           radices == GetRadices(length)
       IN  gen' = IF \/ (length * numTrans) % workGroupSize # 0
                     \/ cnPerWI * workGroupSize # numTrans * length
                     \/ cnPerWI > length
                  THEN [gen EXCEPT !.pc = "assert_failed"]
                  ELSE [gen EXCEPT
                          !.cnPerWI = cnPerWI,
                          !.workGroupSizePerTrans = workGroupSize \div numTrans,
                          !.radices = radices,
                          !.tabulated = gen.params.fft_MaxWorkGroupSize >= 256
                                            /\ Len(radices) # 0,
                          !.pc = IF gen.params.fft_MaxWorkGroupSize >= 256
                                      /\ Len(radices) # 0
                                 THEN "tabulated" ELSE "greedy"]
    /\ UNCHANGED <<paramVars, cacheVars, runVars, kernel, sched, dev>>

\* One iteration of the loop over the tabulated radices.
TabulatedPass ==
    /\ gen.pc = "tabulated"
    /\ gen.pid < Len(gen.radices)
    /\ LET rad == gen.radices[gen.pid + 1]
           L == gen.LS * rad
           R == gen.R \div rad
       IN  gen' = [gen EXCEPT
                      !.R = R,
                      !.passes = Append(@, Pass(gen.pid, gen.length, rad,
                                                gen.cnPerWI, L, gen.LS, R)),
                      !.LS = gen.LS * rad,
                      !.pid = @ + 1]
    /\ UNCHANGED <<paramVars, cacheVars, runVars, kernel, sched, dev>>

\* After the tabulated radices: assert(R == 1); numPasses = nPasses.
TabulatedDone ==
    /\ gen.pc = "tabulated"
    /\ gen.pid = Len(gen.radices)
    /\ gen' = IF gen.R # 1 THEN [gen EXCEPT !.pc = "assert_failed"]
              ELSE [gen EXCEPT !.numPasses = Len(gen.radices), !.pc = "breakdown_done"]
    /\ UNCHANGED <<paramVars, cacheVars, runVars, kernel, sched, dev>>

\* One iteration of while(true): pick the radix, create the pass, leave the
\* loop when R == 1.
GreedyPass ==
    /\ gen.pc = "greedy"
    /\ Len(gen.passes) < MaxPasses
    /\ LET rad == PickRadix(gen.cnPerWI, gen.R)
           L == gen.LS * rad
           R == gen.R \div rad
       IN  gen' = [gen EXCEPT
                      !.R = R,
                      !.radices = Append(@, rad),
                      !.passes = Append(@, Pass(gen.pid, gen.length, rad,
                                                gen.cnPerWI, L, gen.LS, R)),
                      !.pid = @ + 1,
                      !.LS = gen.LS * rad,
                      !.numPasses = IF R = 1 THEN gen.pid + 1 ELSE @,
                      !.pc = IF R = 1 THEN "breakdown_done" ELSE "greedy"]
    /\ UNCHANGED <<paramVars, cacheVars, runVars, kernel, sched, dev>>

\* assert(numPasses == passes.size()); assert(numPasses == radices.size());
\* then the grouping and the next-pass pointers.
KernelDone ==
    /\ gen.pc = "breakdown_done"
    /\ gen' = IF gen.numPasses # Len(gen.passes) \/ gen.numPasses # Len(gen.radices)
              THEN [gen EXCEPT !.pc = "assert_failed"]
              ELSE [gen EXCEPT !.pc = "constructed"]
    /\ UNCHANGED <<paramVars, cacheVars, runVars, kernel, sched, dev>>

NextRadix ==
    \/ KernelSizes
    \/ TabulatedPass
    \/ TabulatedDone
    \/ GreedyPass
    \/ KernelDone

SpecRadix == InitRadix /\ [][NextRadix]_vars

(***************************************************************************)
(* Claims about the breakdown into passes.                                 *)
(***************************************************************************)
GeneratedRadices == {13, 11, 10, 8, 7, 6, 5, 4, 3, 2}

RadixFits(rad, cnPerWI, R) == R % rad = 0 /\ cnPerWI % rad = 0

InGreedyLoop == gen.pc = "greedy"

\* C13: the greedy radix loop terminates: every iteration makes the
\* remaining length R smaller or leaves the loop, and an iteration that
\* finds no radix of {13, ..., 2} dividing both the remaining length and
\* cnPerWI ends the construction with the unsupported-length failure.
C13_RadixLoopTerminates ==
    [][(InGreedyLoop /\ gen' # gen) =>
          /\ gen'.R < gen.R \/ gen'.pc # "greedy"
          /\ (gen.R > 1 /\ \A rad \in GeneratedRadices :
                              ~RadixFits(rad, gen.cnPerWI, gen.R))
                => gen'.pc = "unsupported_length"]_vars

RECURSIVE Product(_)
Product(s) == IF s = <<>> THEN 1 ELSE Head(s) * Product(Tail(s))

PassRadices(passes) == [i \in DOMAIN passes |-> passes[i].radix]

InRadixTable(length) == \E rec \in GetRecord : rec.length = length

BreakdownStarted == gen.pc \in {"tabulated", "greedy", "breakdown_done", "constructed"}

\* C14: the radix sequence of a kernel is the tabulated one when the length
\* is in the radix table and fft_MaxWorkGroupSize >= 256; otherwise every
\* radix is the largest value of {13, 11, 10, 8, 7, 6, 5, 4, 3, 2} that
\* divides the remaining length and cnPerWI.  Pass p has LS the product of
\* the earlier radices, L = LS * radix and R = length / L; the product of
\* the radices of a constructed kernel is its length and its last R is 1.
C14_RadixSequence ==
    BreakdownStarted =>
        LET passes == gen.passes
            rads == PassRadices(passes)
        IN  /\ gen.tabulated =
                  (InRadixTable(gen.length) /\ gen.params.fft_MaxWorkGroupSize >= 256)
            /\ gen.tabulated =>
                  rads = SubSeq(GetRadices(gen.length), 1, Len(rads))
            /\ ~gen.tabulated =>
                  \A p \in DOMAIN passes :
                      /\ rads[p] \in GeneratedRadices
                      /\ RadixFits(rads[p], gen.cnPerWI, gen.length \div passes[p].LS)
                      /\ \A rad \in GeneratedRadices :
                            RadixFits(rad, gen.cnPerWI, gen.length \div passes[p].LS)
                                => rad <= rads[p]
            /\ \A p \in DOMAIN passes :
                  /\ passes[p].LS = Product(SubSeq(rads, 1, p - 1))
                  /\ passes[p].L = passes[p].LS * rads[p]
                  /\ passes[p].R * passes[p].L = gen.length
            /\ gen.pc = "constructed" =>
                  /\ Product(rads) = gen.length
                  /\ passes[Len(passes)].R = 1

(***************************************************************************)
(* StockhamKernel (stockham_gen_base.h): the constructor derives the       *)
(* kernel's sizes from a copy of the specs it is given.                    *)
(***************************************************************************)
LDS_BYTE_LIMIT == 32 * 1024

BYTES_PER_ELEMENT == 16

bytes_per_batch_full(specs) == specs.length * BYTES_PER_ELEMENT

bytes_per_batch(specs) ==
    IF specs.half_lds
    THEN (specs.length * BYTES_PER_ELEMENT) \div 2
    ELSE specs.length * BYTES_PER_ELEMENT

Factors(specs) == {specs.factors[i] : i \in DOMAIN specs.factors}

ThreadsFit_dividing_threads(specs, t) ==
    /\ ~(t > specs.threads_per_block)
    /\ specs.length % t = 0
    /\ \A f \in Factors(specs) : t % f = 0

\* The test of the loop body for one t.
ThreadsFit(specs, t) ==
    /\ ~(t > specs.threads_per_block)
    /\ specs.length % t = 0
    /\ \A f \in Factors(specs) : (specs.length \div t) % f = 0

\* for(t = 2; t < length; ++t): the last t that passes the test stays.
derive_threads_per_transform(specs) ==
    LET fits == {t \in 2..(specs.length - 1) : ThreadsFit(specs, t)}
    IN  IF fits = {} THEN 1 ELSE CHOOSE t \in fits : \A u \in fits : u <= t

\* while(threads_per_transform * batches_per_block > threads_per_block)
\*     --batches_per_block;
\* The loop counts down from batches_per_block and stops at the first value
\* that fails its condition, the largest such value.
decrease_batches_per_block(threads_per_transform, batches_per_block, threads_per_block) ==
    LET stops == {b \in 0..batches_per_block :
                     ~(threads_per_transform * b > threads_per_block)}
    IN  CHOOSE b \in stops : \A c \in stops : c <= b

Ceil(a, b) == (a + b - 1) \div b

compute_nregisters_floor(length, factors, threads_per_transform) ==
    LET n == {(length \div (factors[i] * threads_per_transform)) * factors[i] :
                  i \in DOMAIN factors}
    IN  IF n = {} THEN 0 ELSE CHOOSE x \in n : \A y \in n : y <= x

\* compute_nregisters: the largest ceil(length / width / threads) * width.
compute_nregisters(length, factors, threads_per_transform) ==
    LET n == {Ceil(length, factors[i] * threads_per_transform) * factors[i] :
                  i \in DOMAIN factors}
    IN  IF n = {} THEN 0 ELSE CHOOSE x \in n : \A y \in n : y <= x

\* "forward_length" + length + "_" + tiling_name(), with "_device" appended
\* for the device function.
global_function_name(specs) == <<"forward_length", specs.length, "_", specs.tiling>>

device_function_name_numbered(specs) ==
    <<"forward_length", specs.length, "_", specs.tiling, "_device", Len(gen.order)>>

device_function_name(specs) ==
    <<"forward_length", specs.length, "_", specs.tiling, "_device">>

\* StockhamKernel(StockhamGeneratorSpecs& specs)
StockhamKernel(specs) ==
    LET threads_per_transform ==
            IF specs.threads_per_transform = 0
            THEN derive_threads_per_transform(specs)
            ELSE specs.threads_per_transform
        fitting == decrease_batches_per_block(threads_per_transform,
                                              LDS_BYTE_LIMIT \div bytes_per_batch(specs),
                                              specs.threads_per_block)
        batches_per_block ==
            IF specs.factors2d # <<>> THEN Min(fitting, specs.length2d) ELSE fitting
        threads_per_block == threads_per_transform * batches_per_block
    IN  [length |-> specs.length,
         factors |-> specs.factors,
         factors2d |-> specs.factors2d,
         length2d |-> specs.length2d,
         half_lds |-> specs.half_lds,
         tiling |-> specs.tiling,
         threads_per_transform |-> threads_per_transform,
         threads_per_block |-> threads_per_block,
         transforms_per_block |-> threads_per_block \div threads_per_transform,
         nregisters |-> compute_nregisters(specs.length, specs.factors,
                                           threads_per_transform),
         global_function |-> global_function_name(specs),
         device_function |-> device_function_name(specs)]

(***************************************************************************)
(* Kernel::Kernel as a function of its parameters, for the constructions   *)
(* that end within MaxPasses passes.                                       *)
(***************************************************************************)
RECURSIVE GreedyRadices(_, _, _)
GreedyRadices(cnPerWI, R, n) ==
    IF n = 0 THEN <<0>>
    ELSE LET rad == PickRadix(cnPerWI, R) IN
         IF R \div rad = 1 THEN <<rad>>
         ELSE <<rad>> \o GreedyRadices(cnPerWI, R \div rad, n - 1)

Kernel(paramsVal) ==
    LET length == paramsVal.fft_N
        workGroupSize == paramsVal.fft_workGroupSize
        numTrans == paramsVal.fft_numTrans
        cnPerWI == (numTrans * length) \div workGroupSize
        tabulated == paramsVal.fft_MaxWorkGroupSize >= 256 /\ GetRadices(length) # <<>>
        rads == IF tabulated THEN GetRadices(length)
                ELSE GreedyRadices(cnPerWI, length, MaxPasses)
        failed == \/ (length * numTrans) % workGroupSize # 0
                  \/ cnPerWI * workGroupSize # numTrans * length
                  \/ cnPerWI > length
                  \/ tabulated /\ Product(rads) # length
                  \/ ~tabulated /\ GetRadices(length) # <<>>
    IN  IF failed
        THEN [length |-> length, status |-> "assert_failed"]
        ELSE IF rads[Len(rads)] = 0
        THEN [length |-> length, status |-> "constructing"]
        ELSE [length |-> length, status |-> "constructed",
              workGroupSize |-> workGroupSize, numTrans |-> numTrans,
              cnPerWI |-> cnPerWI,
              workGroupSizePerTrans |-> workGroupSize \div numTrans,
              radices |-> rads, numPasses |-> Len(rads)]

(***************************************************************************)
(* The generator constructs kernel objects, each from its own input.       *)
(***************************************************************************)
Objects == {"k1", "k2"}

NotConstructed == [status |-> "none"]

LengthsAndFactors ==
    {<<8, <<4, 2>>>>, <<8, <<8>>>>, <<9, <<3, 3>>>>, <<35, <<7, 5>>>>,
     <<64, <<8, 8>>>>, <<4096, <<16, 16, 16>>>>}

StockhamGeneratorSpecs ==
    {[generator |-> "StockhamKernel", length |-> lf[1], factors |-> lf[2],
      factors2d |-> f2[1], length2d |-> f2[2],
      threads_per_block |-> tpb, threads_per_transform |-> tpt,
      half_lds |-> half, tiling |-> "SBRR"] :
        lf \in LengthsAndFactors, f2 \in {<<<<>>, 0>>, <<<<2>>, 2>>},
        tpb \in {64, 256}, tpt \in {0, 4}, half \in BOOLEAN}

FFTKernelGenKeyParams ==
    {[generator |-> "Kernel", fft_N |-> n, fft_workGroupSize |-> wgs,
      fft_numTrans |-> 1, fft_MaxWorkGroupSize |-> maxwgs] :
        n \in {8, 9, 17, 35}, wgs \in {1, 3}, maxwgs \in MaxWorkGroupSizes}

KernelInputs == StockhamGeneratorSpecs \cup FFTKernelGenKeyParams

InitStockham ==
    /\ \E inputs \in [Objects -> KernelInputs] :
          gen = [pc |-> "generating", inputs |-> inputs,
                 kernels |-> [o \in Objects |-> NotConstructed],
                 order |-> <<>>]
    /\ ParamsIdle
    /\ CacheIdle
    /\ RunIdle
    /\ KernelIdle
    /\ SchedIdle
    /\ DeviceIdle

Constructed(o) == gen.kernels[o] # NotConstructed

\* StockhamKernel kernel(specs);
ConstructStockhamKernel(o) ==
    /\ gen.pc = "generating"
    /\ ~Constructed(o)
    /\ gen.inputs[o].generator = "StockhamKernel"
    /\ gen' = [gen EXCEPT !.kernels[o] = StockhamKernel(gen.inputs[o]),
                          !.order = Append(@, o)]
    /\ UNCHANGED <<paramVars, cacheVars, runVars, kernel, sched, dev>>

\* Kernel<PR> kernel(params);
ConstructKernel(o) ==
    /\ gen.pc = "generating"
    /\ ~Constructed(o)
    /\ gen.inputs[o].generator = "Kernel"
    /\ gen' = [gen EXCEPT !.kernels[o] = Kernel(gen.inputs[o]),
                          !.order = Append(@, o)]
    /\ UNCHANGED <<paramVars, cacheVars, runVars, kernel, sched, dev>>

NextStockham ==
    \/ \E o \in Objects : ConstructStockhamKernel(o)
    \/ \E o \in Objects : ConstructKernel(o)

SpecStockham == InitStockham /\ [][NextStockham]_vars

(***************************************************************************)
(* Claims about the kernel objects.                                        *)
(***************************************************************************)
StockhamObjects ==
    IF gen.pc # "generating" THEN {}
    ELSE {o \in Objects : Constructed(o) /\ gen.inputs[o].generator = "StockhamKernel"}

LdsBytes(k) == k.transforms_per_block * k.length * BYTES_PER_ELEMENT

\* The transforms per block that the limits allow, the LDS bytes of one
\* transform being bytes.
AllowedTransforms(specs, k, n, bytes) ==
    /\ k.threads_per_transform * n <= specs.threads_per_block
    /\ n * bytes <= LDS_BYTE_LIMIT
    /\ specs.factors2d # <<>> => n <= specs.length2d

LargestAllowed(specs, k, bytes) ==
    /\ AllowedTransforms(specs, k, k.transforms_per_block, bytes)
    /\ ~AllowedTransforms(specs, k, k.transforms_per_block + 1, bytes)
    /\ k.threads_per_block = k.threads_per_transform * k.transforms_per_block

\* C19 as stated: transforms_per_block is the largest integer within the
\* threads-per-block limit, within transforms_per_block * length * 16 <=
\* LDS_BYTE_LIMIT whether or not half_lds is set, and within length2d for a
\* 2-D kernel; threads_per_block is threads_per_transform *
\* transforms_per_block.
C19_BlockSizingFullBytes ==
    \A o \in StockhamObjects :
        LargestAllowed(gen.inputs[o], gen.kernels[o],
                       gen.inputs[o].length * BYTES_PER_ELEMENT)

\* C19: transforms_per_block is the largest integer with
\* threads_per_transform * transforms_per_block within the threads-per-block
\* limit and transforms_per_block * length * 16 (* 8 under half_lds) within
\* LDS_BYTE_LIMIT, capped by length2d for a 2-D kernel; threads_per_block is
\* threads_per_transform * transforms_per_block.
C19_BlockSizing ==
    \A o \in StockhamObjects :
        LargestAllowed(gen.inputs[o], gen.kernels[o],
                       IF gen.inputs[o].half_lds
                       THEN gen.inputs[o].length * (BYTES_PER_ELEMENT \div 2)
                       ELSE gen.inputs[o].length * BYTES_PER_ELEMENT)

C19_Witness ==
    \E o \in StockhamObjects :
        /\ gen.inputs[o].half_lds
        /\ gen.kernels[o].transforms_per_block > 1
        /\ LdsBytes(gen.kernels[o]) > LDS_BYTE_LIMIT

DerivedObjects == {o \in StockhamObjects : gen.inputs[o].threads_per_transform = 0}

PowersOfTwo == {2 ^ i : i \in 0..12}

\* cnPerWI is feasible as the claim states it: the thread count
\* length / cnPerWI is within the threads-per-block limit and every factor
\* divides it.
FeasibleAsStated(specs, cnPerWI) ==
    /\ specs.length % cnPerWI = 0
    /\ specs.length \div cnPerWI <= specs.threads_per_block
    /\ \A f \in Factors(specs) : (specs.length \div cnPerWI) % f = 0

\* C20 as stated: a threads_per_transform that is not supplied is
\* length / cnPerWI, cnPerWI being the smallest power of two for which
\* length / cnPerWI is within the threads-per-block limit and is divided by
\* every factor.
C20_ThreadsFromSmallestPowerOfTwo ==
    \A o \in DerivedObjects :
        \E cnPerWI \in PowersOfTwo :
            /\ FeasibleAsStated(gen.inputs[o], cnPerWI)
            /\ \A c \in PowersOfTwo : FeasibleAsStated(gen.inputs[o], c) => cnPerWI <= c
            /\ gen.kernels[o].threads_per_transform * cnPerWI = gen.inputs[o].length

\* A thread count the constructor's loop accepts: between 2 and length - 1,
\* within the threads-per-block limit, dividing the length, with every
\* factor dividing cnPerWI = length / t.
Feasible(specs, t) ==
    /\ 2 <= t /\ t < specs.length
    /\ t <= specs.threads_per_block
    /\ \E cnPerWI \in 1..specs.length :
          /\ t * cnPerWI = specs.length
          /\ \A f \in Factors(specs) : cnPerWI % f = 0

\* C20: a threads_per_transform that is not supplied is the largest t with
\* 2 <= t < length, t within the threads-per-block limit, t dividing length
\* and every factor dividing cnPerWI = length / t (cnPerWI need not be a
\* power of two); it is 1 when there is no such t.
C20_ThreadsFromLargestFeasibleCount ==
    \A o \in DerivedObjects :
        LET specs == gen.inputs[o]
            t == gen.kernels[o].threads_per_transform
        IN  /\ t = 1 \/ Feasible(specs, t)
            /\ \A u \in (t + 1)..specs.length : ~Feasible(specs, u)

C20_Witness ==
    \E o \in DerivedObjects :
        /\ gen.kernels[o].threads_per_transform > 1
        /\ gen.inputs[o].length \div gen.kernels[o].threads_per_transform \notin PowersOfTwo

ConstructedObjects ==
    IF gen.pc # "generating" THEN {} ELSE {o \in Objects : Constructed(o)}

LdsComponents == {"NONE", "X", "Y"}

EmbeddedTypes == {"NONE", "C2Real_PRE", "Real2C_POST"}

\* A statement of the generated code: what it does (op), for which pass and
\* component, the butterflies it covers (iters: h, hr and dt of each call
\* of the generator) and the condition it is wrapped in.
Statement(op, npass, component, width, cumheight, iters, guard) ==
    [op |-> op, npass |-> npass, component |-> component, width |-> width,
     cumheight |-> cumheight, iters |-> iters, guard |-> guard]

NoIters == <<>>

SyncThreadsStatement == Statement("SyncThreads", 0, "NONE", 0, 0, NoIters, "none")

\* add_work(generator, width, height, guard), height being
\* length / width / threads_per_transform: the generator is called for
\* h < iheight, and once more, guarded, for the butterflies left over.
add_work(k, op, npass, component, width, cumheight, guard) ==
    LET tpt == k.threads_per_transform
        floor_height == k.length \div (width * tpt)
        Above(i) == k.length > i * width * tpt
        iheight == IF Above(floor_height) /\ tpt > k.length \div width
                   THEN floor_height + 1 ELSE floor_height
        work == [h \in 1..iheight |-> [h |-> h - 1, hr |-> h - 1, dt |-> 0]]
        tail == <<[h |-> 0, hr |-> iheight, dt |-> iheight * tpt]>>
    IN  <<Statement(op, npass, component, width, cumheight, work,
                    IF guard
                    THEN IF tpt # k.length \div width THEN "write_thread" ELSE "write"
                    ELSE "none")>>
        \o (IF Above(iheight) /\ tpt < k.length \div width
            THEN <<Statement(op, npass, component, width, cumheight, tail,
                             "write_thread")>>
            ELSE <<>>)

\* tid = thread + dt + h * threads_per_transform
Tid(k, thread, it) == thread + it.dt + it.h * k.threads_per_transform

\* load_lds_generator: idx = offset_lds + (tid + w * length / width) * lstride,
\* with offset_lds = 0 and lstride = 1.
load_lds_index(k, width, tid, w) == tid + (w * k.length) \div width

store_lds_index_by_width(k, width, cumheight, tid, w) ==
    (tid \div cumheight) * (width * cumheight) + (tid % cumheight) + w * width

\* store_lds_generator: idx = offset_lds + ((tid / cumheight) * (width *
\* cumheight) + tid % cumheight + w * cumheight) * lstride.
store_lds_index(k, width, cumheight, tid, w) ==
    (tid \div cumheight) * (width * cumheight) + (tid % cumheight) + w * cumheight

twiddle_index_from_zero(width, cumheight, tid, w) ==
    w - 1 + (width - 1) * (tid % cumheight)

\* apply_twiddle_generator: tidx = cumheight - 1 + w - 1 + (width - 1) *
\* (tid % cumheight).
twiddle_index(width, cumheight, tid, w) ==
    cumheight - 1 + w - 1 + (width - 1) * (tid % cumheight)

\* The statements of one pass that a complex LDS runs after the butterfly,
\* without the barrier before the store.
store_full_no_sync(k, npass, width, cumheight) ==
    add_work(k, "store_lds", npass, "NONE", width, cumheight, TRUE)

\* store_full: SyncThreads, then the guarded store of the pass.
store_full(k, npass, width, cumheight) ==
    <<SyncThreadsStatement>>
        \o add_work(k, "store_lds", npass, "NONE", width, cumheight, TRUE)

\* The statements for one component with the next pass's load before the
\* store of this pass.
store_half_component_load_first(k, npass, component, cumheight) ==
    add_work(k, "load_lds", npass + 1, component, k.factors[npass + 2], 0, TRUE)
        \o <<SyncThreadsStatement>>
        \o add_work(k, "store_lds", npass, component, k.factors[npass + 1], cumheight, TRUE)
        \o <<SyncThreadsStatement>>

\* store_half, for one component: the guarded store of this pass,
\* SyncThreads, the guarded load for the next pass, SyncThreads.
store_half_component(k, npass, component, cumheight) ==
    add_work(k, "store_lds", npass, component, k.factors[npass + 1], cumheight, TRUE)
        \o <<SyncThreadsStatement>>
        \o add_work(k, "load_lds", npass + 1, component, k.factors[npass + 2], 0, TRUE)
        \o <<SyncThreadsStatement>>

store_half(k, npass, cumheight) ==
    IF npass < Len(k.factors) - 1
    THEN store_half_component(k, npass, "X", cumheight)
            \o store_half_component(k, npass, "Y", cumheight)
    ELSE <<>>

\* The body of the loop over npass in generate_device_function, the branch
\* on lds_is_real taken as the kernel is instantiated.
generate_pass(k, npass) ==
    LET width == k.factors[npass + 1]
        cumheight == Product(SubSeq(k.factors, 1, npass))
    IN  <<SyncThreadsStatement>>
        \o (IF ~k.lds_is_real
            THEN add_work(k, "load_lds", npass, "NONE", width, 0, FALSE)
            ELSE <<>>)
        \o (IF npass > 0
            THEN add_work(k, "apply_twiddle", npass, "NONE", width, cumheight, FALSE)
            ELSE <<>>)
        \o add_work(k, "butterfly", npass, "NONE", width, cumheight, FALSE)
        \o (IF npass = Len(k.factors) - 1
            THEN <<Statement("large_twiddles_multiply", npass, "NONE", width,
                             cumheight, NoIters, "none")>>
            ELSE <<>>)
        \o (IF ~k.lds_is_real
            THEN store_full(k, npass, width, cumheight)
            ELSE store_half(k, npass, cumheight))

RECURSIVE generate_passes(_, _)
generate_passes(k, npass) ==
    IF npass >= Len(k.factors) THEN <<>>
    ELSE generate_pass(k, npass) \o generate_passes(k, npass + 1)

generate_device_function(k) ==
    IF k.length = 1 THEN <<>> ELSE generate_passes(k, 0)

real2cmplx_pre_post_even_only(k, half_N, type) ==
    LET template_type == IF type = "PRE" THEN "C2Real_PRE" ELSE "Real2C_POST"
        quarter_N == half_N \div 2
        r2c_calls_per_transform ==
            IF quarter_N % k.threads_per_transform > 0
            THEN quarter_N \div k.threads_per_transform + 1
            ELSE quarter_N \div k.threads_per_transform
        calls == [i \in 1..r2c_calls_per_transform |->
                     Statement("real_process", 0, "NONE", half_N, quarter_N,
                               <<[h |-> i - 1, hr |-> 0, dt |-> 0,
                                  function_name |-> type,
                                  Ndiv4 |-> half_N % 2 = 0]>>, "none")]
    IN  IF k.embedded_type = template_type
        THEN <<SyncThreadsStatement>> \o calls
                \o (IF type = "PRE" THEN <<SyncThreadsStatement>> ELSE <<>>)
        ELSE <<>>

\* real2cmplx_pre_post(half_N, type): SyncThreads, the calls of the
\* pre/post-processing function, and for PRE a closing SyncThreads; all
\* inside If{embedded_type == template_type}.
real2cmplx_pre_post(k, half_N, type) ==
    LET template_type == IF type = "PRE" THEN "C2Real_PRE" ELSE "Real2C_POST"
        quarter_N == IF half_N % 2 = 1 THEN half_N \div 2 + 1 ELSE half_N \div 2
        r2c_calls_per_transform ==
            IF quarter_N % k.threads_per_transform > 0
            THEN quarter_N \div k.threads_per_transform + 1
            ELSE quarter_N \div k.threads_per_transform
        calls == [i \in 1..r2c_calls_per_transform |->
                     Statement("real_process", 0, "NONE", half_N, quarter_N,
                               <<[h |-> i - 1, hr |-> 0, dt |-> 0,
                                  function_name |-> type,
                                  Ndiv4 |-> half_N % 2 = 0]>>, "none")]
    IN  IF k.embedded_type = template_type
        THEN <<SyncThreadsStatement>> \o calls
                \o (IF type = "PRE" THEN <<SyncThreadsStatement>> ELSE <<>>)
        ELSE <<>>

\* The body of generate_global_function, with load_from_lds set.
generate_global_function(k) ==
    LET loadlds == <<Statement("load_from_global", 0, "NONE", 0, 0, NoIters, "none")>>
                       \o real2cmplx_pre_post(k, k.length, "PRE")
        loadr == <<Statement("load_registers", 0, "NONE", 0, 0, NoIters, "none")>>
        storelds == real2cmplx_pre_post(k, k.length, "POST")
                       \o <<SyncThreadsStatement>>
                       \o <<Statement("store_to_global", 0, "NONE", 0, 0, NoIters, "none")>>
        storer == <<Statement("store_registers", 0, "NONE", 0, 0, NoIters, "none")>>
    IN  (IF ~k.lds_is_real THEN loadlds ELSE loadr)
            \o generate_device_function(k)
            \o (IF ~k.lds_is_real THEN storelds ELSE storer)

(***************************************************************************)
(* What a statement does when the work-item `thread` runs it.              *)
(***************************************************************************)
\* write && (thread + dt < length / width)
GuardHolds(k, s, thread) ==
    CASE s.guard = "none" -> TRUE
      [] s.guard = "write" -> TRUE
      [] s.guard = "write_thread" ->
            thread + s.iters[1].dt < k.length \div s.width

\* The elements a work-item moves between global memory and LDS: each
\* element of the transform is moved by one work-item.
OwnElements(k, thread) ==
    {e \in 0..(k.length - 1) : e % k.threads_per_transform = thread}

\* The LDS slots a call real_pre/post_process_kernel_inplace(idx_p, idx_q,
\* quarter_N, ...) reads and writes.
RealProcessSlots(k, s, thread) ==
    LET idx_p == thread + s.iters[1].h * k.threads_per_transform
        idx_q == s.width - thread - s.iters[1].h * k.threads_per_transform
    IN  IF idx_p < s.cumheight THEN {idx_p, idx_q} ELSE {}

\* The arguments of a call of real_pre/post_process_kernel_inplace by a
\* work-item: thread + i * threads_per_transform, half_N minus that, and
\* quarter_N, with the template argument Ndiv4.
RealProcessCalls(k, s, thread) ==
    IF s.op # "real_process" THEN {}
    ELSE {[thread |-> thread, i |-> s.iters[1].h,
           function_name |-> s.iters[1].function_name,
           Ndiv4 |-> s.iters[1].Ndiv4,
           idx_p |-> thread + s.iters[1].h * k.threads_per_transform,
           idx_q |-> s.width - thread - s.iters[1].h * k.threads_per_transform,
           quarter_N |-> s.cumheight]}

LdsReads(k, s, thread) ==
    IF ~GuardHolds(k, s, thread) THEN {}
    ELSE CASE s.op = "load_lds" ->
                 {load_lds_index(k, s.width, Tid(k, thread, s.iters[i]), w) :
                      i \in DOMAIN s.iters, w \in 0..(s.width - 1)}
           [] s.op = "store_to_global" -> OwnElements(k, thread)
           [] s.op = "real_process" -> RealProcessSlots(k, s, thread)
           [] OTHER -> {}

LdsStores(k, s, thread) ==
    IF ~GuardHolds(k, s, thread) \/ s.op # "store_lds" THEN {}
    ELSE {[npass |-> s.npass, component |-> s.component, thread |-> thread,
           tid |-> Tid(k, thread, s.iters[i]), w |-> w,
           idx |-> store_lds_index(k, s.width, s.cumheight,
                                   Tid(k, thread, s.iters[i]), w)] :
              i \in DOMAIN s.iters, w \in 0..(s.width - 1)}

LdsWrites(k, s, thread) ==
    IF ~GuardHolds(k, s, thread) THEN {}
    ELSE CASE s.op = "store_lds" -> {st.idx : st \in LdsStores(k, s, thread)}
           [] s.op = "load_from_global" -> OwnElements(k, thread)
           [] s.op = "real_process" -> RealProcessSlots(k, s, thread)
           [] OTHER -> {}

TwiddleReads(k, s, thread) ==
    IF ~GuardHolds(k, s, thread) \/ s.op # "apply_twiddle" THEN {}
    ELSE {[npass |-> s.npass, tid |-> Tid(k, thread, s.iters[i]), w |-> w,
           tidx |-> twiddle_index(s.width, s.cumheight,
                                  Tid(k, thread, s.iters[i]), w)] :
              i \in DOMAIN s.iters, w \in 1..(s.width - 1)}

Butterflies(k, s, thread) ==
    IF ~GuardHolds(k, s, thread) \/ s.op # "butterfly" THEN {}
    ELSE {[npass |-> s.npass, thread |-> thread, hr |-> s.iters[i].hr] :
              i \in DOMAIN s.iters}

(***************************************************************************)
(* The run of a kernel by the work-items of one transform.                 *)
(***************************************************************************)
DeviceLengthsAndFactors ==
    {<<3, <<3>>>>, <<4, <<2, 2>>>>, <<6, <<2, 3>>>>, <<6, <<3, 2>>>>, <<8, <<4, 2>>>>,
     <<8, <<2, 2, 2>>>>}

DeviceThreads == {1, 2, 3}

\* lds_is_real is embedded_type == NONE under half_lds, false otherwise.
DeviceKernels ==
    {[length |-> lf[1], factors |-> lf[2], threads_per_transform |-> tpt,
      half_lds |-> half, embedded_type |-> emb,
      lds_is_real |-> half /\ emb = "NONE"] :
        lf \in DeviceLengthsAndFactors, tpt \in DeviceThreads,
        half \in BOOLEAN, emb \in EmbeddedTypes}

WorkItems(k) == 0..(k.threads_per_transform - 1)

AllWorkItems == UNION {WorkItems(k) : k \in DeviceKernels}

InitDevice ==
    /\ \E k \in DeviceKernels :
          dev = [pc |-> "running", k |-> k,
                 program |-> generate_global_function(k),
                 at |-> [t \in WorkItems(k) |-> 1],
                 reads |-> {}, writes |-> {}, race |-> FALSE,
                 stores |-> {}, twiddles |-> {}, butterflies |-> {},
                 calls |-> {}, epoch |-> {}, log |-> <<>>]
    /\ ParamsIdle
    /\ CacheIdle
    /\ RunIdle
    /\ KernelIdle
    /\ SchedIdle
    /\ KernelGenIdle

AtStatement(t) ==
    /\ dev.pc = "running"
    /\ t \in WorkItems(dev.k)
    /\ dev.at[t] <= Len(dev.program)

\* A work-item runs its next statement.  An access to an LDS slot that
\* another work-item has written, or a write of a slot another work-item
\* has read, since the last barrier is a race.
Execute(t) ==
    /\ AtStatement(t)
    /\ LET s == dev.program[dev.at[t]]
           r == LdsReads(dev.k, s, t)
           w == LdsWrites(dev.k, s, t)
       IN  /\ s.op # "SyncThreads"
           /\ dev' = [dev EXCEPT
                         !.at[t] = @ + 1,
                         !.reads = @ \cup {<<t, slot>> : slot \in r},
                         !.writes = @ \cup {<<t, slot>> : slot \in w},
                         !.race = @ \/ \E u \in WorkItems(dev.k) \ {t} :
                                          \/ \E slot \in r \cup w : <<u, slot>> \in dev.writes
                                          \/ \E slot \in w : <<u, slot>> \in dev.reads,
                         !.stores = @ \cup LdsStores(dev.k, s, t),
                         !.twiddles = @ \cup TwiddleReads(dev.k, s, t),
                         !.butterflies = @ \cup Butterflies(dev.k, s, t),
                         !.calls = @ \cup RealProcessCalls(dev.k, s, t),
                         !.epoch = IF s.op \in {"load_lds", "store_lds"} /\ r \cup w # {}
                                   THEN @ \cup {<<s.op, s.component, s.npass>>}
                                   ELSE @]
    /\ UNCHANGED <<paramVars, cacheVars, runVars, kernel, sched, gen>>

\* __syncthreads(): the work-items leave the barrier together.
SyncThreads ==
    /\ dev.pc = "running"
    /\ \A t \in WorkItems(dev.k) :
          AtStatement(t) /\ dev.program[dev.at[t]].op = "SyncThreads"
    /\ dev' = [dev EXCEPT
                  !.at = [t \in WorkItems(dev.k) |-> dev.at[t] + 1],
                  !.reads = {}, !.writes = {},
                  !.epoch = {},
                  !.log = IF dev.epoch = {} THEN @ ELSE Append(@, dev.epoch)]
    /\ UNCHANGED <<paramVars, cacheVars, runVars, kernel, sched, gen>>

\* The kernel returns when every work-item has run the last statement.
KernelReturn ==
    /\ dev.pc = "running"
    /\ \A t \in WorkItems(dev.k) : dev.at[t] > Len(dev.program)
    /\ dev' = [dev EXCEPT !.pc = "returned"]
    /\ UNCHANGED <<paramVars, cacheVars, runVars, kernel, sched, gen>>

NextDevice ==
    \/ \E t \in AllWorkItems : Execute(t)
    \/ SyncThreads
    \/ KernelReturn

SpecDevice == InitDevice /\ [][NextDevice]_vars

(***************************************************************************)
(* Claims about the generated device code.                                 *)
(***************************************************************************)
DeviceRunning == dev.pc \in {"running", "returned"}

PassWidth(k, p) == k.factors[p + 1]

PassHeight(k, p) == Product(SubSeq(k.factors, 1, p))

\* The passes of a kernel, and those whose results go through LDS.
Passes(k) == 0..(Len(k.factors) - 1)

StoringPasses(k) ==
    IF k.lds_is_real THEN 0..(Len(k.factors) - 2) ELSE Passes(k)

StoredComponents(k) == IF k.lds_is_real THEN {"X", "Y"} ELSE {"NONE"}

StoresOf(p, c) == {st \in dev.stores : st.npass = p /\ st.component = c}

ButterfliesOf(p, t) == {b \in dev.butterflies : b.npass = p /\ b.thread = t}

\* The tail iteration exists when threads_per_transform is below
\* length / W_p and does not divide it; delta is the first butterfly of it.
HasTail(k, p) ==
    /\ k.threads_per_transform < k.length \div PassWidth(k, p)
    /\ (k.length \div PassWidth(k, p)) % k.threads_per_transform # 0

TailDelta(k, p) ==
    ((k.length \div PassWidth(k, p)) \div k.threads_per_transform)
        * k.threads_per_transform

\* C15: in every pass p, for every threads_per_transform, the guarded LDS
\* stores of the work-items of a transform write each position of
\* [0, length) exactly once, the store of register w of butterfly t going
\* to (t / H_p) * (W_p * H_p) + (t mod H_p) + w * H_p with t in
\* [0, length / W_p) and w in [0, W_p); each work-item performs
\* ceil(length / (W_p * threads_per_transform)) butterfly iterations, the
\* last of which, when it is the tail, only if thread + delta < length / W_p.
C15_StoresCoverTransformOnce ==
    DeviceRunning =>
        LET k == dev.k IN
        /\ \A st \in dev.stores :
              LET W == PassWidth(k, st.npass)
                  H == PassHeight(k, st.npass)
              IN  /\ st.npass \in StoringPasses(k)
                  /\ st.tid \in 0..(k.length \div W - 1)
                  /\ st.w \in 0..(W - 1)
                  /\ st.idx = (st.tid \div H) * (W * H) + (st.tid % H) + st.w * H
        /\ \A st1, st2 \in dev.stores :
              (st1.npass = st2.npass /\ st1.component = st2.component
                  /\ st1.idx = st2.idx) => st1 = st2
        /\ dev.pc = "returned" =>
              /\ \A p \in StoringPasses(k), c \in StoredComponents(k) :
                    {st.idx : st \in StoresOf(p, c)} = 0..(k.length - 1)
              /\ \A p \in Passes(k), t \in WorkItems(k) :
                    Cardinality(ButterfliesOf(p, t)) =
                        IF HasTail(k, p)
                              /\ ~(t + TailDelta(k, p) < k.length \div PassWidth(k, p))
                        THEN Ceil(k.length, PassWidth(k, p) * k.threads_per_transform) - 1
                        ELSE Ceil(k.length, PassWidth(k, p) * k.threads_per_transform)

C15_Witness ==
    /\ dev.pc = "returned"
    /\ ~dev.k.lds_is_real
    /\ dev.k.threads_per_transform = 3
    /\ dev.k.length = 8
    /\ HasTail(dev.k, 0)
    /\ \E st \in dev.stores : st.npass = 0 /\ st.tid >= TailDelta(dev.k, 0)

\* C16: with a complex LDS (lds_is_real false) no work-item reads an LDS
\* slot that another work-item has written, and none overwrites a slot that
\* another has read or written, without a block barrier in between: the
\* loads from global memory, the stores of every pass and the real pre- and
\* post-processing are each separated by SyncThreads from the accesses of
\* the other work-items to the same slots.
C16_BarrierBetweenWriteAndRead ==
    (DeviceRunning /\ ~dev.k.lds_is_real) => ~dev.race

C16_Witness ==
    /\ dev.pc = "returned"
    /\ ~dev.k.lds_is_real
    /\ dev.k.embedded_type = "C2Real_PRE"
    /\ dev.k.threads_per_transform = 3
    /\ Len(dev.k.factors) = 3
    /\ dev.stores # {}

\* The LDS traffic between consecutive passes under half_lds, one set of
\* accesses per barrier interval.
RECURSIVE HalfLdsOrder(_, _)
HalfLdsOrder(k, p) ==
    IF p >= Len(k.factors) - 1 THEN <<>>
    ELSE <<{<<"store_lds", "X", p>>}, {<<"load_lds", "X", p + 1>>},
           {<<"store_lds", "Y", p>>}, {<<"load_lds", "Y", p + 1>>}>>
            \o HalfLdsOrder(k, p + 1)

LdsHistory == dev.log \o (IF dev.epoch = {} THEN <<>> ELSE <<dev.epoch>>)

\* C17: under half_lds (lds_is_real true) the LDS accesses between
\* consecutive passes p and p + 1 are, in this order, each closed by a
\* barrier: the store of the X components of pass p, the load of X for pass
\* p + 1, the store of Y of pass p, the load of Y for pass p + 1; the last
\* pass stores nothing to LDS.
C17_HalfLdsOrder ==
    (DeviceRunning /\ dev.k.lds_is_real) =>
        LET expected == HalfLdsOrder(dev.k, 0) IN
        /\ Len(LdsHistory) <= Len(expected)
        /\ LdsHistory = SubSeq(expected, 1, Len(LdsHistory))
        /\ dev.pc = "returned" => dev.log = expected
        /\ \A st \in dev.stores : st.npass # Len(dev.k.factors) - 1

C17_Witness ==
    /\ dev.pc = "returned"
    /\ dev.k.lds_is_real
    /\ Len(dev.k.factors) = 3
    /\ dev.k.threads_per_transform = 2
    /\ Len(dev.log) = 8

\* The twiddle table as the twiddle table builder sizes it: the sum over
\* the passes p > 0 of (W_p - 1) * H_p.
RECURSIVE twiddle_table_size(_, _)
twiddle_table_size(k, p) ==
    IF p >= Len(k.factors) THEN 0
    ELSE (PassWidth(k, p) - 1) * PassHeight(k, p) + twiddle_table_size(k, p + 1)

TwiddlesOf(p) == {tw.tidx : tw \in {x \in dev.twiddles : x.npass = p}}

TwiddleRuleOfPasses ==
    LET k == dev.k IN
    /\ \A tw \in dev.twiddles :
          LET W == PassWidth(k, tw.npass)
              H == PassHeight(k, tw.npass)
          IN  /\ tw.npass > 0
              /\ tw.w \in 1..(W - 1)
              /\ tw.tidx = H - 1 + (tw.w - 1) + (W - 1) * (tw.tid % H)
    /\ \A p, q \in Passes(k) : p # q => TwiddlesOf(p) \cap TwiddlesOf(q) = {}
    /\ dev.pc = "returned" =>
          \A p \in Passes(k) \ {0} :
              TwiddlesOf(p) =
                  (PassHeight(k, p) - 1)..(PassWidth(k, p) * PassHeight(k, p) - 2)

\* C18 as stated: in every pass p > 0, and in no pass 0, register w in
\* [1, W_p) of butterfly t is multiplied by twiddles[H_p - 1 + (w - 1) +
\* (W_p - 1) * (t mod H_p)]; the index ranges of different passes are
\* disjoint and follow one another, and every index read is inside the
\* table of sum over p > 0 of (W_p - 1) * H_p entries.
C18_TwiddlesInsideTableOfLaterPasses ==
    DeviceRunning =>
        /\ TwiddleRuleOfPasses
        /\ \A tw \in dev.twiddles :
              tw.tidx \in 0..(twiddle_table_size(dev.k, 1) - 1)

\* C18: in every pass p > 0, and in no pass 0, register w in [1, W_p) of
\* butterfly t is multiplied by twiddles[H_p - 1 + (w - 1) + (W_p - 1) *
\* (t mod H_p)]; the index ranges of different passes are disjoint and
\* follow one another from W_0 - 1 to length - 2, so every index read is
\* inside a table of length - 1 entries, the sum over all passes of
\* (W_p - 1) * H_p, whose first W_0 - 1 entries are not read.
C18_TwiddlesInsideTableOfAllPasses ==
    DeviceRunning =>
        /\ TwiddleRuleOfPasses
        /\ twiddle_table_size(dev.k, 0) = dev.k.length - 1
        /\ \A tw \in dev.twiddles :
              tw.tidx \in (PassWidth(dev.k, 0) - 1)..(twiddle_table_size(dev.k, 0) - 1)
        /\ dev.pc = "returned" =>
              UNION {TwiddlesOf(p) : p \in Passes(dev.k)} =
                  (PassWidth(dev.k, 0) - 1)..(dev.k.length - 2)

C18_Witness ==
    /\ dev.pc = "returned"
    /\ Len(dev.k.factors) = 3
    /\ \E tw \in dev.twiddles : tw.tidx >= twiddle_table_size(dev.k, 1)

(***************************************************************************)
(* Kernel::OffsetCalc (generator.kernel.hpp): the offset of a work-item's  *)
(* transform in a kernel that is not block-compute.  The generated code    *)
(* reads lengths[1 .. dim-1] and stride[1 .. dim]; the sequences below     *)
(* hold those elements (element 0, the transform's own length and stride,  *)
(* is not read here).  All values stay far below the width of the          *)
(* generated int and size_t variables, so the arithmetic is exact.         *)
(***************************************************************************)
MaxRank == 4

OffsetRanks == 1..MaxRank

OffsetLengths == {1, 2, 3}

\* stride vectors whose elements are not multiples of each other's extents
OffsetStrides == {<<1, 3, 10, 31, 100, 301>>, <<7, 2, 1, 50, 20, 400>>}

StrideOf(vector, rank) == SubSeq(vector, 1, rank)

\* "size_t counter_mod = ..." (lines 503-543)
counter_mod(k, batch, me, rc_second_index) ==
    IF k.r2c2r /\ ~k.rcSimple
    THEN batch * (2 * k.numTrans) + (IF rc_second_index THEN 1 ELSE 0)
         + (IF k.numTrans # 1 THEN 2 * (me \div k.workGroupSizePerTrans) ELSE 0)
    ELSE IF k.numTrans = 1
         THEN batch
         ELSE batch * k.numTrans + (me \div k.workGroupSizePerTrans)

\* if(dim == 1)
OffsetDim1(cm, stride) == cm * stride[1]

\* else if(dim == 2)
OffsetDim2(cm, lengths, stride) ==
    LET counter_1 == cm \div lengths[1]
        counter_mod_1 == cm % lengths[1]
    IN  counter_1 * stride[2] + counter_mod_1 * stride[1]

OffsetDim3_from_counter_mod(cm, lengths, stride) ==
    LET counter_2 == cm \div (lengths[1] * lengths[2])
        counter_1 == cm \div lengths[1]
        counter_mod_1 == cm % lengths[1]
    IN  counter_2 * stride[3] + counter_1 * stride[2] + counter_mod_1 * stride[1]

\* else if(dim == 3)
OffsetDim3(cm, lengths, stride) ==
    LET counter_2 == cm \div (lengths[1] * lengths[2])
        counter_mod_2 == cm % (lengths[1] * lengths[2])
        counter_1 == counter_mod_2 \div lengths[1]
        counter_mod_1 == counter_mod_2 % lengths[1]
    IN  counter_2 * stride[3] + counter_1 * stride[2] + counter_mod_1 * stride[1]

\* for(int j=1; j<i; j++) currentLength *= lengths[j];
RECURSIVE currentLength(_, _, _)
currentLength(lengths, j, i) ==
    IF j < i THEN lengths[j] * currentLength(lengths, j + 1, i) ELSE 1

\* else { for(int i = dim; i>1; i--) {...}  offset += counter_mod * stride[1]; }
RECURSIVE OffsetLoop(_, _, _, _)
OffsetLoop(cm, lengths, stride, i) ==
    IF i > 1
    THEN (cm \div currentLength(lengths, 1, i)) * stride[i]
         + OffsetLoop(cm % currentLength(lengths, 1, i), lengths, stride, i - 1)
    ELSE cm * stride[1]

OffsetKernels ==
    {k \in [numTrans : {1, 2}, workGroupSizePerTrans : {1, 2},
            r2c2r : BOOLEAN, rcSimple : BOOLEAN] : k.rcSimple => k.r2c2r}

Outputs == BOOLEAN

InitOffset ==
    /\ \E rank \in OffsetRanks, k \in OffsetKernels, output \in Outputs :
         \E lengths \in [1..(rank - 1) -> OffsetLengths],
            stride_in \in OffsetStrides, stride_out \in OffsetStrides,
            batch \in 0..(IF rank > 3 THEN 6 ELSE 3),
            me \in 0..(k.numTrans * k.workGroupSizePerTrans - 1),
            rc_second_index \in BOOLEAN :
           /\ rc_second_index => (k.r2c2r /\ ~k.rcSimple)
           /\ output <=> stride_in # stride_out
           /\ global = [pc |-> "offset", k |-> k, dim |-> rank, lengths |-> lengths,
                        stride_in |-> StrideOf(stride_in, rank),
                        stride_out |-> StrideOf(stride_out, rank),
                        output |-> output, batch |-> batch, me |-> me,
                        rc_second_index |-> rc_second_index,
                        counter_mod |-> 0, offset1 |-> 0, offset2 |-> 0]
    /\ ParamsIdle
    /\ CacheIdle
    /\ KernelIdle
    /\ GenIdle
    /\ ClientIdle

CounterMod ==
    /\ global.pc = "offset"
    /\ global' = [global EXCEPT
         !.counter_mod = counter_mod(global.k, global.batch, global.me,
                                     global.rc_second_index),
         !.pc = IF global.dim <= 3 THEN "unrolled" ELSE "loop"]
    /\ UNCHANGED <<paramVars, cacheVars, kernel, client, genVars>>

Unrolled(cm, lengths, stride, rank) ==
    CASE rank = 1 -> OffsetDim1(cm, stride)
      [] rank = 2 -> OffsetDim2(cm, lengths, stride)
      [] rank = 3 -> OffsetDim3(cm, lengths, stride)

OffsetCalcUnrolled ==
    /\ global.pc = "unrolled"
    /\ global' = [global EXCEPT
         !.offset1 = @ + Unrolled(global.counter_mod, global.lengths,
                                  global.stride_in, global.dim),
         !.offset2 = IF global.output
                     THEN @ + Unrolled(global.counter_mod, global.lengths,
                                       global.stride_out, global.dim)
                     ELSE @,
         !.pc = "done"]
    /\ UNCHANGED <<paramVars, cacheVars, kernel, client, genVars>>

OffsetCalcLoop ==
    /\ global.pc = "loop"
    /\ global' = [global EXCEPT
         !.offset1 = @ + OffsetLoop(global.counter_mod, global.lengths,
                                    global.stride_in, global.dim),
         !.offset2 = IF global.output
                     THEN @ + OffsetLoop(global.counter_mod, global.lengths,
                                         global.stride_out, global.dim)
                     ELSE @,
         !.pc = "done"]
    /\ UNCHANGED <<paramVars, cacheVars, kernel, client, genVars>>

NextOffset == CounterMod \/ OffsetCalcUnrolled \/ OffsetCalcLoop

SpecOffset == InitOffset /\ [][NextOffset]_vars

\* the digit of dimension i of a flat transform index, in the mixed radix
\* lengths[1], ..., lengths[dim-1] (the last digit is unbounded)
Digit(cm, lengths, rank, i) ==
    IF i = rank
    THEN cm \div currentLength(lengths, 1, i)
    ELSE (cm % currentLength(lengths, 1, i + 1)) \div currentLength(lengths, 1, i)

RECURSIVE DigitSum(_, _, _, _, _)
DigitSum(cm, lengths, stride, rank, i) ==
    IF i = 0 THEN 0
    ELSE Digit(cm, lengths, rank, i) * stride[i] + DigitSum(cm, lengths, stride, rank, i - 1)

FlatIndex == global.batch * global.k.numTrans + (global.me \div global.k.workGroupSizePerTrans)

OffsetDone == global.pc = "done" /\ ~(global.k.r2c2r /\ ~global.k.rcSimple)

\* C21: once the offsets are computed for counter_mod = batch*numTrans +
\* me/workGroupSizePerTrans, the input offset is the sum over the dimensions
\* of the index's mixed-radix digit times stride_in, the branch taken for
\* dim = 1, 2, 3 gives the offset the generic loop gives, and the output
\* offset is the same sum with stride_out.
C21_FlatBatchOffset ==
    OffsetDone =>
        /\ global.counter_mod = FlatIndex
        /\ global.offset1 = DigitSum(FlatIndex, global.lengths, global.stride_in,
                                     global.dim, global.dim)
        /\ global.offset1 = OffsetLoop(FlatIndex, global.lengths, global.stride_in,
                                       global.dim)
        /\ global.output =>
             /\ global.offset2 = DigitSum(FlatIndex, global.lengths, global.stride_out,
                                          global.dim, global.dim)
             /\ global.offset2 = OffsetLoop(FlatIndex, global.lengths, global.stride_out,
                                            global.dim)

C21_Witness ==
    /\ OffsetDone
    /\ global.dim = 3
    /\ global.output
    /\ global.k.numTrans > 1
    /\ global.me \div global.k.workGroupSizePerTrans > 0
    /\ \A i \in 1..3 : Digit(FlatIndex, global.lengths, 3, i) > 0

(***************************************************************************)
(* Kernel::OffsetCalcBlockCompute (generator.kernel.hpp): the offset of    *)
(* the tile of a block in a block-compute kernel.  The grid holds, for     *)
(* each of the batch_count true batches, one block per tile of blockWidth  *)
(* columns and per index of the higher dimensions, which are folded into   *)
(* the block index.  For BCT_R2C the kernel is instantiated with           *)
(* Tsbrc = SBRC_2D.                                                        *)
(***************************************************************************)
BlockComputeTypes == {"BCT_C2C", "BCT_C2R", "BCT_R2C"}

BlockWidths == {2}

\* blocks of one true batch
BlocksPerBatch(lengths, rank, blockWidth) ==
    (lengths[1] \div blockWidth) * currentLength(lengths, 2, rank)

InitBlockOffset ==
    /\ \E rank \in 2..MaxRank, type \in BlockComputeTypes, blockWidth \in BlockWidths,
          output \in Outputs, batch_count \in {1, 2} :
         \E lengths \in [1..(rank - 1) -> {1, 2, 2 * blockWidth}],
            stride_in \in OffsetStrides, stride_out \in OffsetStrides :
           /\ lengths[1] % blockWidth = 0
           /\ output <=> stride_in # stride_out
           /\ \E batch \in 0..(batch_count * BlocksPerBatch(lengths, rank, blockWidth) - 1) :
                global = [pc |-> "block_offset",
                          k |-> [blockComputeType |-> type, blockWidth |-> blockWidth],
                          dim |-> rank, lengths0 |-> 4, lengths |-> lengths,
                          stride_in |-> StrideOf(stride_in, rank),
                          stride_out |-> StrideOf(stride_out, rank),
                          output |-> output, batch |-> batch, batch_count |-> batch_count,
                          hipGridDim_x |-> batch_count * BlocksPerBatch(lengths, rank, blockWidth),
                          counter_mod |-> 0, batch_local_count |-> 0, i |-> 0,
                          offset1 |-> 0, offset2 |-> 0]
    /\ ParamsIdle
    /\ CacheIdle
    /\ KernelIdle
    /\ GenIdle
    /\ ClientIdle

\* batch_block_size, counter_mod, batch_local_count (lines 304-308)
BatchBlock ==
    /\ global.pc = "block_offset"
    /\ LET batch_block_size == global.hipGridDim_x \div global.batch_count
       IN  global' = [global EXCEPT !.counter_mod = global.batch % batch_block_size,
                                    !.batch_local_count = global.batch \div batch_block_size,
                                    !.i = global.dim,
                                    !.pc = "fold"]
    /\ UNCHANGED <<paramVars, cacheVars, kernel, client, genVars>>

\* for(int j=2; j<i; j++) currentLength *= lengths[j];
\* currentLength *= (lengths[1]/blockWidth);
blockCurrentLength(lengths, i, blockWidth) ==
    currentLength(lengths, 2, i) * (lengths[1] \div blockWidth)

\* one iteration of for(int i = dim; i>2; i--)
FoldDimension ==
    /\ global.pc = "fold"
    /\ global.i > 2
    /\ LET cl == blockCurrentLength(global.lengths, global.i, global.k.blockWidth)
       IN  global' = [global EXCEPT
             !.offset1 = @ + (global.counter_mod \div cl) * global.stride_in[global.i],
             !.offset2 = IF global.output
                         THEN @ + (global.counter_mod \div cl) * global.stride_out[global.i]
                         ELSE @,
             !.counter_mod = global.counter_mod % cl,
             !.i = global.i - 1]
    /\ UNCHANGED <<paramVars, cacheVars, kernel, client, genVars>>

tileIdx_y(cm, lengths, blockWidth) == cm \div (lengths[1] \div blockWidth)

tileIdx_x(cm, lengths, blockWidth) == cm % (lengths[1] \div blockWidth)

\* "[dim >= 3 ? dim-1 : 2]"
batch_dist_idx(rank) == IF rank >= 3 THEN rank - 1 ELSE 2

\* the input offset after the tile block (lines 336-366)
InputTileOffset(g) ==
    LET tileOffset_y == g.stride_in[2]
        tileOffset_x == IF g.k.blockComputeType = "BCT_R2C"
                        THEN g.k.blockWidth * g.lengths0 ELSE g.k.blockWidth
        added == g.offset1
                 + tileIdx_y(g.counter_mod, g.lengths, g.k.blockWidth) * tileOffset_y
                 + tileIdx_x(g.counter_mod, g.lengths, g.k.blockWidth) * tileOffset_x
        scaled == IF g.k.blockComputeType = "BCT_C2C" THEN added * g.stride_in[1] ELSE added
    IN  scaled + g.batch_local_count * g.stride_in[batch_dist_idx(g.dim)]

\* the output offset after the tile block (lines 368-387)
OutputTileOffset(g) ==
    LET tileOffset_y == g.stride_out[2]
        tileOffset_x == IF g.k.blockComputeType = "BCT_C2R"
                        THEN g.k.blockWidth * g.lengths0 ELSE g.k.blockWidth
        added == g.offset2
                 + tileIdx_y(g.counter_mod, g.lengths, g.k.blockWidth) * tileOffset_y
                 + tileIdx_x(g.counter_mod, g.lengths, g.k.blockWidth) * tileOffset_x
        scaled == IF g.k.blockComputeType = "BCT_R2C" THEN added * g.stride_out[1] ELSE added
    IN  scaled + g.batch_local_count * g.stride_out[batch_dist_idx(g.dim)]

TileOffset ==
    /\ global.pc = "fold"
    /\ ~(global.i > 2)
    /\ global' = [global EXCEPT
         !.offset1 = InputTileOffset(global),
         !.offset2 = IF global.output THEN OutputTileOffset(global) ELSE @,
         !.pc = "done"]
    /\ UNCHANGED <<paramVars, cacheVars, kernel, client, genVars>>

NextBlockOffset == BatchBlock \/ FoldDimension \/ TileOffset

SpecBlockOffset == InitBlockOffset /\ [][NextBlockOffset]_vars

BlockOffsetDone == global.pc = "done" /\ "hipGridDim_x" \in DOMAIN global

\* the tile of a block as the claim names it
TileOf(g) ==
    LET cm == g.batch % (g.hipGridDim_x \div g.batch_count)
    IN  [x |-> cm % (g.lengths[1] \div g.k.blockWidth),
         y |-> cm \div (g.lengths[1] \div g.k.blockWidth),
         batch |-> g.batch \div (g.hipGridDim_x \div g.batch_count)]

\* C22: in a C2C block-compute kernel of rank 2 or 3 the input offset of a
\* block is tile_y*stride[2] + tile_x*blockWidth*stride[1] plus the true
\* batch index times the batch stride, whatever stride[1] is.
C22_TileOffset ==
    (BlockOffsetDone /\ global.k.blockComputeType = "BCT_C2C" /\ global.dim <= 3) =>
        global.offset1 = TileOf(global).y * global.stride_in[2]
                         + TileOf(global).x * (global.k.blockWidth * global.stride_in[1])
                         + TileOf(global).batch * global.stride_in[batch_dist_idx(global.dim)]

\* the same holds where the claim's case does not depend on stride[1]:
\* unit stride[1], or a block in the first row of tiles
C22_TileOffsetUnitStrideOrFirstRow ==
    (BlockOffsetDone /\ global.k.blockComputeType = "BCT_C2C" /\ global.dim <= 3
       /\ (global.stride_in[1] = 1 \/ TileOf(global).y = 0)) =>
        global.offset1 = TileOf(global).y * global.stride_in[2]
                         + TileOf(global).x * (global.k.blockWidth * global.stride_in[1])
                         + TileOf(global).batch * global.stride_in[batch_dist_idx(global.dim)]

(***************************************************************************)
(* Kernel::GenerateSingleGlobalKernelRWFlag and the rw / me arguments of   *)
(* the device call (generator.kernel.hpp): which work-items of a block     *)
(* read and write.  The grid may hold more blocks than the transforms      *)
(* need.                                                                   *)
(***************************************************************************)
RWKernels ==
    {k \in [numTrans : {1, 2, 3}, workGroupSizePerTrans : {1, 2}, blockCompute : BOOLEAN,
             realSpecial : BOOLEAN, r2c2r : BOOLEAN, rcSimple : BOOLEAN] :
       k.rcSimple => k.r2c2r}

\* blocks that cover count transforms, numTrans per block
BlocksFor(count, numTrans) == (count + numTrans - 1) \div numTrans

InitRWFlag ==
    /\ \E k \in RWKernels, rank \in 1..3, batch_count \in 1..3 :
         \E lengths \in [1..(rank - 1) -> {1, 2, 3}],
            me \in 0..(k.numTrans * k.workGroupSizePerTrans - 1) :
           \E batch \in 0..(BlocksFor(batch_count * currentLength(lengths, 1, rank),
                                      k.numTrans) + 1) :
             global = [pc |-> "rw_flag", k |-> k, dim |-> rank, lengths |-> lengths,
                       batch_count |-> batch_count, batch |-> batch, me |-> me,
                       upper_count |-> 0, rw |-> 0, call |-> <<>>]
    /\ ParamsIdle
    /\ CacheIdle
    /\ KernelIdle
    /\ GenIdle
    /\ ClientIdle

\* for(int i=1; i<dim; i++) upper_count *= lengths[i];
RECURSIVE upper_count(_, _, _, _)
upper_count(count, lengths, i, rank) ==
    IF i < rank THEN upper_count(count * lengths[i], lengths, i + 1, rank) ELSE count

\* unsigned math: a count below batch*numTrans wraps around to a large one
rw_unsigned_math(upper, batch, me, k) ==
    IF upper >= batch * k.numTrans
    THEN IF me < (upper - batch * k.numTrans) * k.workGroupSizePerTrans THEN 1 ELSE 0
    ELSE 1

\* (static_cast<int>(me) < (static_cast<int>(upper_count)
\*     - static_cast<int>(batch)*numTrans)*workGroupSizePerTrans) ? 1 : 0
rw_signed_math(upper, batch, me, k) ==
    IF me < (upper - batch * k.numTrans) * k.workGroupSizePerTrans THEN 1 ELSE 0

GenerateSingleGlobalKernelRWFlag ==
    /\ global.pc = "rw_flag"
    /\ IF global.k.numTrans > 1 /\ ~global.k.blockCompute
       THEN LET upper == upper_count(global.batch_count, global.lengths, 1, global.dim)
            IN  global' = [global EXCEPT
                  !.upper_count = upper,
                  !.rw = rw_signed_math(upper, global.batch, global.me, global.k),
                  !.pc = "device_call"]
       ELSE global' = [global EXCEPT !.rw = 1, !.pc = "device_call"]
    /\ UNCHANGED <<paramVars, cacheVars, kernel, client, genVars>>

\* the rw and me arguments of the device function (lines 1585-1608)
DeviceCallArguments ==
    /\ global.pc = "device_call"
    /\ global' = [global EXCEPT
         !.call = [rw |-> IF (global.k.r2c2r /\ ~global.k.rcSimple)
                             \/ global.k.numTrans > 1 \/ global.k.realSpecial
                          THEN global.rw ELSE 1,
                   me |-> IF global.k.numTrans > 1 \/ global.k.blockCompute
                          THEN global.me % global.k.workGroupSizePerTrans
                          ELSE global.me],
         !.pc = "done"]
    /\ UNCHANGED <<paramVars, cacheVars, kernel, client, genVars>>

NextRWFlag == GenerateSingleGlobalKernelRWFlag \/ DeviceCallArguments

SpecRWFlag == InitRWFlag /\ [][NextRWFlag]_vars

RWDone ==
    /\ global.pc = "done"
    /\ "rw" \in DOMAIN global
    /\ global.k.numTrans > 1
    /\ ~global.k.blockCompute

TransformIndex ==
    global.batch * global.k.numTrans + (global.me \div global.k.workGroupSizePerTrans)

TransformCount == global.batch_count * currentLength(global.lengths, 1, global.dim)

\* C23: in a kernel with numTrans > 1 that is not block-compute, the flag
\* the device function receives is 1 exactly when the work-item's transform
\* index is below upper_count = batch_count * lengths[1] * ... *
\* lengths[dim-1], and 0 otherwise, also in blocks that start beyond
\* upper_count.
C23_RWFlagExact ==
    RWDone =>
        /\ global.upper_count = TransformCount
        /\ global.rw \in {0, 1}
        /\ global.rw = 1 <=> TransformIndex < TransformCount
        /\ global.call.rw = global.rw

C23_Witness ==
    /\ RWDone
    /\ global.batch * global.k.numTrans > TransformCount
    /\ global.k.workGroupSizePerTrans > 1
    /\ global.dim = 3
    /\ global.call.rw = 0

(***************************************************************************)
(* Kernel::GenerateSingleGlobalKernelBody, block-compute part              *)
(* (generator.kernel.hpp): the work-items of a block stage a tile of       *)
(* blockWidth columns of length elements from global memory into LDS,      *)
(* meet at __syncthreads(), and then call the device function in a loop.   *)
(* blockWidth and blockWGS come from the block-compute table, which the    *)
(* constructor reads through BlockSizes::GetValue without checking them    *)
(* against workGroupSizePerTrans (the assertion there is commented out).   *)
(* The model ends where the device-call loop ends.                         *)
(***************************************************************************)
BlockKernels ==
    {k \in [length : {2, 4}, blockWidth : {1, 2, 4}, blockWGS : {2, 4},
            workGroupSizePerTrans : {1, 2, 4}, blockComputeType : BlockComputeTypes] :
       /\ k.workGroupSizePerTrans <= k.blockWGS
       /\ k.blockWidth <= k.blockWGS
       /\ k.length * k.blockWidth >= k.blockWGS}

BlockWorkItems(k) == 0..(k.blockWGS - 1)

\* size_t loopCount = (length * blockWidth) / blockWGS;
loopCount(k) == (k.length * k.blockWidth) \div k.blockWGS

\* blockWidth / (blockWGS / workGroupSizePerTrans)
callLoopCount(k) == k.blockWidth \div (k.blockWGS \div k.workGroupSizePerTrans)

InitStaging ==
    /\ \E k \in BlockKernels :
         global = [pc |-> "staging", k |-> k,
                   t |-> [me \in BlockWorkItems(k) |-> 0],
                   writes |-> {}, calls |-> {}]
    /\ ParamsIdle
    /\ CacheIdle
    /\ KernelIdle
    /\ GenIdle
    /\ ClientIdle

\* the element of the tile read from global memory: column along stride_in[1]
\* (or unit stride), row along stride_in[0]
GlobalTileElement(k, me, t) ==
    [column |-> me % k.blockWidth,
     row |-> (me \div k.blockWidth) + t * (k.blockWGS \div k.blockWidth)]

lds_index_row_major(k, me, t) == t * k.blockWGS + me

\* lds[t*(blockWGS/blockWidth) + (me%blockWidth)*length + (me/blockWidth)] for
\* BCT_C2C and BCT_C2R, lds[t*blockWGS + me] otherwise
lds_index(k, me, t) ==
    IF k.blockComputeType \in {"BCT_C2C", "BCT_C2R"}
    THEN t * (k.blockWGS \div k.blockWidth) + (me % k.blockWidth) * k.length
         + (me \div k.blockWidth)
    ELSE t * k.blockWGS + me

\* one iteration of the staging loop by one work-item
StageTile(me) ==
    /\ global.pc = "staging"
    /\ me \in DOMAIN global.t
    /\ global.t[me] < loopCount(global.k)
    /\ global' = [global EXCEPT
         !.writes = @ \cup {[slot |-> lds_index(global.k, me, global.t[me]),
                             me |-> me, t |-> global.t[me],
                             from |-> GlobalTileElement(global.k, me, global.t[me])]},
         !.t[me] = @ + 1]
    /\ UNCHANGED <<paramVars, cacheVars, kernel, client, genVars>>

\* __syncthreads() after the staging loop
StagingBarrier ==
    /\ global.pc = "staging"
    /\ \A me \in DOMAIN global.t : ~(global.t[me] < loopCount(global.k))
    /\ global' = [global EXCEPT !.pc = "calling",
                                !.t = [me \in DOMAIN global.t |-> 0]]
    /\ UNCHANGED <<paramVars, cacheVars, kernel, client, genVars>>

\* "t*(length*(blockWGS/workGroupSizePerTrans)) + (me/workGroupSizePerTrans)*length"
ldsOff(k, me, t) ==
    t * (k.length * (k.blockWGS \div k.workGroupSizePerTrans))
    + (me \div k.workGroupSizePerTrans) * k.length

\* one iteration of the device-call loop by one work-item
CallDevice(me) ==
    /\ global.pc = "calling"
    /\ me \in DOMAIN global.t
    /\ global.t[me] < callLoopCount(global.k)
    /\ global' = [global EXCEPT
         !.calls = @ \cup {[t |-> global.t[me], me |-> me,
                            lane |-> me % global.k.workGroupSizePerTrans,
                            ldsOff |-> ldsOff(global.k, me, global.t[me])]},
         !.t[me] = @ + 1]
    /\ UNCHANGED <<paramVars, cacheVars, kernel, client, genVars>>

CallsDone ==
    /\ global.pc = "calling"
    /\ \A me \in DOMAIN global.t : ~(global.t[me] < callLoopCount(global.k))
    /\ global' = [global EXCEPT !.pc = "called"]
    /\ UNCHANGED <<paramVars, cacheVars, kernel, client, genVars>>

AllBlockWorkItems == UNION {BlockWorkItems(k) : k \in BlockKernels}

NextStaging ==
    \/ \E me \in AllBlockWorkItems : StageTile(me)
    \/ StagingBarrier
    \/ \E me \in AllBlockWorkItems : CallDevice(me)
    \/ CallsDone

SpecStaging == InitStaging /\ [][NextStaging]_vars

ColumnKernel == global.k.blockComputeType \in {"BCT_C2C", "BCT_C2R"}

\* the premises the claim names
TileDivides ==
    /\ global.k.blockWGS % global.k.blockWidth = 0
    /\ (global.k.length * global.k.blockWidth) % global.k.blockWGS = 0

\* and the one it leaves out: a pass of the device-call loop transforms
\* blockWGS / workGroupSizePerTrans whole columns, a divisor of blockWidth
CallsDivide ==
    /\ global.k.blockWGS % global.k.workGroupSizePerTrans = 0
    /\ global.k.blockWidth % (global.k.blockWGS \div global.k.workGroupSizePerTrans) = 0

TileSlots == 0..(global.k.length * global.k.blockWidth - 1)

Columns == 0..(global.k.blockWidth - 1)

\* every slot of the tile written once, column c in [c*length, (c+1)*length)
StagedOnce ==
    /\ \A w \in global.writes :
         /\ w.slot \in TileSlots
         /\ w.slot = w.from.column * global.k.length + w.from.row
         /\ w.from.row < global.k.length
    /\ \A s \in TileSlots : Cardinality({w \in global.writes : w.slot = s}) = 1

\* the groups of work-items that call the device function on column c
CallsOn(c) ==
    {<<x.t, x.me \div global.k.workGroupSizePerTrans>> :
       x \in {y \in global.calls : y.ldsOff = c * global.k.length}}

\* every column transformed once, by all the lanes of one group
TransformedOnce ==
    /\ \A x \in global.calls : \E c \in Columns : x.ldsOff = c * global.k.length
    /\ \A c \in Columns :
         /\ Cardinality(CallsOn(c)) = 1
         /\ {x.lane : x \in {y \in global.calls : y.ldsOff = c * global.k.length}}
              = 0..(global.k.workGroupSizePerTrans - 1)

DeviceReturned == dev.pc = "returned"

half_N == dev.k.length

quarter_N == (half_N + 1) \div 2

\* the processing function a kernel's embedded type selects
ProcessingOf(embedded_type) ==
    CASE embedded_type = "C2Real_PRE" -> {"PRE"}
      [] embedded_type = "Real2C_POST" -> {"POST"}
      [] OTHER -> {}

\* C25: when the kernel has returned, every work-item has called the
\* pre/post-processing function of the kernel's embedded type, and no
\* other, ceil(quarter_N / threads_per_transform) times with
\* quarter_N = ceil(half_N / 2); every k in [0, quarter_N) was passed as
\* first index by exactly one call, with half_N - k as second index; and
\* Ndiv4 is true exactly when half_N is even.
C25_RealProcessingCalls ==
    DeviceReturned =>
        /\ \A c \in dev.calls :
             /\ c.function_name \in ProcessingOf(dev.k.embedded_type)
             /\ c.quarter_N = quarter_N
             /\ c.idx_q = half_N - c.idx_p
             /\ c.Ndiv4 <=> half_N % 2 = 0
        /\ dev.k.embedded_type # "NONE" =>
             /\ \A t \in WorkItems(dev.k) :
                  Cardinality({c \in dev.calls : c.thread = t})
                    = Ceil(quarter_N, dev.k.threads_per_transform)
             /\ \A first \in 0..(quarter_N - 1) :
                  Cardinality({c \in dev.calls : c.idx_p = first}) = 1

C25_Witness ==
    /\ DeviceReturned
    /\ dev.k.embedded_type = "C2Real_PRE"
    /\ half_N % 2 = 1
    /\ dev.k.threads_per_transform = 1
    /\ Cardinality(dev.calls) = 2

\* the registers R[hr * width + w] a statement names
RegisterIndices(s) ==
    IF s.op \in {"load_lds", "apply_twiddle", "butterfly", "store_lds"}
    THEN {s.iters[i].hr * s.width + w :
            i \in DOMAIN s.iters,
            w \in (IF s.op = "apply_twiddle" THEN 1 ELSE 0)..(s.width - 1)}
    ELSE {}

nregisters == compute_nregisters(dev.k.length, dev.k.factors, dev.k.threads_per_transform)

\* C27: every register a load, twiddle, butterfly or store statement of the
\* kernel names, the tail iteration included, is one of the nregisters
\* registers R[0 .. nregisters - 1].
C27_RegistersWithinNregisters ==
    dev.pc # "idle" =>
        \A i \in DOMAIN dev.program :
            \A r \in RegisterIndices(dev.program[i]) : r < nregisters

C27_Witness ==
    /\ dev.pc = "running"
    /\ \E t \in WorkItems(dev.k) :
         \E i \in 1..(dev.at[t] - 1) :
            /\ dev.program[i].op = "store_lds"
            /\ dev.program[i].guard = "write_thread"
            /\ dev.program[i].iters[1].dt > 0
            /\ GuardHolds(dev.k, dev.program[i], t)
            /\ nregisters - 1 \in RegisterIndices(dev.program[i])

(***************************************************************************)
(* Kernel2D (generator.kernel.hpp): a kernel object with a row and a       *)
(* column sub-kernel, each a Kernel2D_SINGLE_pass constructed as a Kernel  *)
(* from its own parameters, and the generation of their offsets.           *)
(***************************************************************************)
Kernel2DParams ==
    {p \in KernelParams : p.fft_N \in {4, 8, 9} /\ p.fft_MaxWorkGroupSize = 256}

Init2D ==
    /\ \E paramsVal1 \in Kernel2DParams, paramsVal2 \in Kernel2DParams :
         gen = [pc |-> "kernel2d", paramsVal1 |-> paramsVal1, paramsVal2 |-> paramsVal2]
    /\ ParamsIdle
    /\ CacheIdle
    /\ RunIdle
    /\ KernelIdle
    /\ SchedIdle
    /\ DeviceIdle

\* Kernel2D::Kernel2D: Kernel(paramsVal1), transform_row(paramsVal1, true),
\* transform_col(paramsVal2, false), then the two assignments of numTrans.
\* An assertion that fails in one of the three constructors ends the run.
Kernel2D ==
    /\ gen.pc = "kernel2d"
    /\ LET base == Kernel(gen.paramsVal1)
           row == Kernel(gen.paramsVal1)
           col == Kernel(gen.paramsVal2)
       IN  IF base.status = "constructed" /\ col.status = "constructed"
           THEN gen' = [pc |-> "body", paramsVal1 |-> gen.paramsVal1,
                        paramsVal2 |-> gen.paramsVal2,
                        base |-> base,
                        transform_row |-> [row EXCEPT !.numTrans = col.length],
                        transform_col |-> [col EXCEPT !.numTrans = row.length],
                        pass |-> "transform_row", temp |-> 0, before |-> 0,
                        emitted |-> <<>>]
           ELSE gen' = [gen EXCEPT !.pc = "assert_failed"]
    /\ UNCHANGED <<paramVars, cacheVars, runVars, kernel, sched, dev>>

\* Kernel2D_SINGLE_pass::GenerateSingleGlobalKernelIOOffsets, first half:
\* size_t temp = 0; std::swap(temp, numTrans);
SwapNumTrans ==
    /\ gen.pc = "body"
    /\ gen' = [gen EXCEPT !.temp = gen[gen.pass].numTrans,
                          ![gen.pass].numTrans = 0,
                          !.before = gen[gen.pass].numTrans,
                          !.pc = "offsets"]
    /\ UNCHANGED <<paramVars, cacheVars, runVars, kernel, sched, dev>>

\* Kernel::GenerateSingleGlobalKernelIOOffsets on the sub-kernel: the
\* counter_mod expression OffsetCalc emits for the numTrans it sees
EmitIOOffsets ==
    /\ gen.pc = "offsets"
    /\ gen' = [gen EXCEPT
         !.emitted = Append(@, [pass |-> gen.pass,
                                numTrans |-> gen[gen.pass].numTrans,
                                workGroupSizePerTrans |-> gen[gen.pass].workGroupSizePerTrans]),
         !.pc = "swap_back"]
    /\ UNCHANGED <<paramVars, cacheVars, runVars, kernel, sched, dev>>

\* second half: std::swap(temp, numTrans); the column transform follows the
\* row transform
SwapNumTransBack ==
    /\ gen.pc = "swap_back"
    /\ gen' = [gen EXCEPT ![gen.pass].numTrans = gen.temp,
                          !.temp = gen[gen.pass].numTrans,
                          !.pass = "transform_col",
                          !.pc = IF gen.pass = "transform_row" THEN "body" ELSE "done"]
    /\ UNCHANGED <<paramVars, cacheVars, runVars, kernel, sched, dev>>

Next2D == Kernel2D \/ SwapNumTrans \/ EmitIOOffsets \/ SwapNumTransBack

Spec2D == Init2D /\ [][Next2D]_vars

\* the assertions of Kernel::Kernel, as relations between an object's fields
AssertedInvariants(o) ==
    /\ o.cnPerWI * o.workGroupSize = o.numTrans * o.length
    /\ o.cnPerWI <= o.length
    /\ o.workGroupSizePerTrans = o.workGroupSize \div o.numTrans

\* the objects of a Kernel2D when none of them is inside
\* GenerateSingleGlobalKernelIOOffsets
Generating2D == gen.pc \in {"body", "done"} /\ "transform_row" \in DOMAIN gen

\* C26: the kernel object and its row and column sub-kernels satisfy the
\* constructor's asserted relations whenever code is generated from them,
\* and a sub-kernel's numTrans is after GenerateSingleGlobalKernelIOOffsets
\* what it was before.
C26_AssertedInvariantsOfEveryKernel ==
    Generating2D =>
        /\ AssertedInvariants(gen.base)
        /\ AssertedInvariants(gen.transform_row)
        /\ AssertedInvariants(gen.transform_col)
        /\ gen.emitted # <<>> =>
             gen[gen.emitted[Len(gen.emitted)].pass].numTrans = gen.before

\* what holds of the code: the relations for the Kernel2D object itself,
\* and the restored numTrans
C26_BaseKernelAndRestoredNumTrans ==
    Generating2D =>
        /\ AssertedInvariants(gen.base)
        /\ gen.emitted # <<>> =>
             gen[gen.emitted[Len(gen.emitted)].pass].numTrans = gen.before

(***************************************************************************)
(* compute_input and impose_hermitian_symmetry (client_utils.h) on complex *)
(* interleaved data.  A complex value is a pair <<re, im>>; data is the    *)
(* buffer, indexed by element offset.  length is the length of the FFT;    *)
(* the data has length[last] / 2 + 1 elements along the last axis.         *)
(***************************************************************************)
HermitianLengths == {1, 2, 3, 4}
HermitianRanks == {1, 2, 3}
HermitianBatches == {1, 2}
InputSeeds == {1, 2}
RowPaddings == {0, 1}

\* the data lengths of a Hermitian input: the last axis is halved
HermitianDataLength(length) ==
    [i \in 1..Len(length) |->
        IF i = Len(length) THEN length[i] \div 2 + 1 ELSE length[i]]

\* row-major strides of a buffer whose rows are padded by pad elements
RECURSIVE RowMajorStride(_, _, _)
RowMajorStride(dlen, pad, i) ==
    IF i = Len(dlen) THEN 1
    ELSE IF i = Len(dlen) - 1 THEN dlen[Len(dlen)] + pad
    ELSE dlen[i + 1] * RowMajorStride(dlen, pad, i + 1)

\* set_input: a value for every element, none with a zero imaginary part
InputValue(seed, off) == <<seed + off, seed + 2 * off + 1>>

conj(z) == <<z[1], 0 - z[2]>>

InitHermitian ==
    /\ \E rank \in HermitianRanks, seed \in InputSeeds, pad \in RowPaddings,
          nbatch \in HermitianBatches :
         \E length \in [1..rank -> HermitianLengths] :
            LET dlen == HermitianDataLength(length)
                istride == [i \in 1..rank |-> RowMajorStride(dlen, pad, i)]
                idist == istride[1] * dlen[1]
            IN  client = [pc |-> "compute_input", length |-> length, istride |-> istride,
                          idist |-> idist, nbatch |-> nbatch, ibatch |-> 0, seed |-> seed,
                          data |-> [off \in 0..(nbatch * idist - 1) |-> <<0, 0>>]]
    /\ ParamsIdle
    /\ CacheIdle
    /\ KernelIdle
    /\ GenIdle
    /\ GlobalIdle

\* compute_input up to the call of impose_hermitian_symmetry
compute_input ==
    /\ client.pc = "compute_input"
    /\ client' = [client EXCEPT
         !.data = [off \in DOMAIN client.data |-> InputValue(client.seed, off)],
         !.pc = "impose"]
    /\ UNCHANGED <<paramVars, cacheVars, kernel, global, genVars>>

\* one statement of impose_hermitian_symmetry: data[to].imag(0.0) or
\* data[to] = std::conj(data[from])
ImagZero(cond, to) == IF cond THEN <<[op |-> "imag", to |-> to, from |-> to]>> ELSE <<>>

\* for(auto i = 1; i < bound; ++i) data[to(i)] = std::conj(data[from(i)])
ConjLoop(cond, bound, to(_), from(_)) ==
    IF cond /\ bound > 1
    THEN [n \in 1..(bound - 1) |-> [op |-> "conj", to |-> to(n), from |-> from(n)]]
    ELSE <<>>

\* for(i = 1; i < ibound; ++i) for(j = 1; j < jbound; ++j) ...
ConjLoop2(cond, ibound, jbound, to(_, _), from(_, _)) ==
    IF cond /\ ibound > 1 /\ jbound > 1
    THEN [n \in 1..((ibound - 1) * (jbound - 1)) |->
            LET i == 1 + (n - 1) \div (jbound - 1)
                j == 1 + ((n - 1) % (jbound - 1))
            IN  [op |-> "conj", to |-> to(i, j), from |-> from(i, j)]]
    ELSE <<>>

\* the statements of case 1, in order
HermitianCase1(length, istride) ==
    ImagZero(TRUE, 0)
    \o ImagZero(length[1] % 2 = 0, istride[1] * (length[1] \div 2))

\* case 2 without its loops over the first axis
HermitianCase2_imag_only(length, istride) ==
    LET nyq1 == istride[2] * (length[2] \div 2)
    IN  ImagZero(length[2] % 2 = 0, nyq1)
        \o ImagZero(length[1] % 2 = 0 /\ length[2] % 2 = 0,
                    istride[1] * (length[1] \div 2) + nyq1)

\* the statements of case 2 before it falls through to case 1
HermitianCase2(length, istride) ==
    LET half0 == (length[1] + 1) \div 2
        nyq1 == istride[2] * (length[2] \div 2)
        to0(i) == istride[1] * (length[1] - i)
        from0(i) == istride[1] * i
        to1(i) == istride[1] * (length[1] - i) + nyq1
        from1(i) == istride[1] * i + nyq1
    IN  ImagZero(length[2] % 2 = 0, nyq1)
        \o ImagZero(length[1] % 2 = 0 /\ length[2] % 2 = 0,
                    istride[1] * (length[1] \div 2) + nyq1)
        \o ConjLoop(TRUE, half0, to0, from0)
        \o ConjLoop(length[2] % 2 = 0, half0, to1, from1)

\* the statements of case 3 before it falls through to case 2
HermitianCase3(length, istride) ==
    LET half0 == (length[1] + 1) \div 2
        half1 == (length[2] + 1) \div 2
        even0 == length[1] % 2 = 0
        even1 == length[2] % 2 = 0
        even2 == length[3] % 2 = 0
        nyq0 == istride[1] * (length[1] \div 2)
        nyq1 == istride[2] * (length[2] \div 2)
        nyq2 == istride[3] * (length[3] \div 2)
        yTo(j) == istride[2] * (length[2] - j)
        yFrom(j) == istride[2] * j
        yxTo(j) == nyq0 + istride[2] * (length[2] - j)
        yxFrom(j) == nyq0 + istride[2] * j
        xTo(i) == istride[1] * (length[1] - i)
        xFrom(i) == istride[1] * i
        xyTo(i) == istride[1] * (length[1] - i) + nyq1
        xyFrom(i) == istride[1] * i + nyq1
        planeTo(i, j) == istride[1] * (length[1] - i) + istride[2] * (length[2] - j)
        planeFrom(i, j) == istride[1] * i + istride[2] * j
        xzTo(i) == istride[1] * (length[1] - i) + nyq2
        xzFrom(i) == istride[1] * i + nyq2
        yzTo(j) == istride[2] * (length[2] - j) + nyq2
        yzFrom(j) == istride[2] * j + nyq2
        yxzTo(j) == nyq0 + istride[2] * (length[2] - j) + nyq2
        yxzFrom(j) == nyq0 + istride[2] * j + nyq2
        planezTo(i, j) == planeTo(i, j) + nyq2
        planezFrom(i, j) == planeFrom(i, j) + nyq2
    IN  ImagZero(even2, nyq2)
        \o ImagZero(even0 /\ even2, nyq0 + nyq2)
        \o ImagZero(even1 /\ even2, nyq1 + nyq2)
        \o ImagZero(even0 /\ even1 /\ even2, nyq0 + nyq1 + nyq2)
        \o ConjLoop(TRUE, half1, yTo, yFrom)
        \o ConjLoop(even0, half1, yxTo, yxFrom)
        \o ConjLoop(TRUE, half0, xTo, xFrom)
        \o ConjLoop(even1, half0, xyTo, xyFrom)
        \o ConjLoop2(TRUE, half0, length[2], planeTo, planeFrom)
        \o ConjLoop(even2, half0, xzTo, xzFrom)
        \* "x-axis at yz-nyquist": the source repeats the offsets of the loop before
        \o ConjLoop(even2 /\ even1, half0, xzTo, xzFrom)
        \o ConjLoop(even2, half1, yzTo, yzFrom)
        \o ConjLoop(even2 /\ even0, half1, yxzTo, yxzFrom)
        \o ConjLoop2(even2, half0, length[2], planezTo, planezFrom)

\* switch(length.size()) with its fall-throughs
HermitianStatements(length, istride) ==
    (IF Len(length) = 3 THEN HermitianCase3(length, istride) ELSE <<>>)
    \o (IF Len(length) >= 2 THEN HermitianCase2(length, istride) ELSE <<>>)
    \o HermitianCase1(length, istride)

\* the statements executed in order on the batch that starts at base
RECURSIVE ExecuteStatements(_, _, _, _)
ExecuteStatements(data, base, stmts, n) ==
    IF n > Len(stmts) THEN data
    ELSE LET s == stmts[n]
             next == IF s.op = "imag"
                     THEN [data EXCEPT ![base + s.to] = <<@[1], 0>>]
                     ELSE [data EXCEPT ![base + s.to] = conj(data[base + s.from])]
         IN  ExecuteStatements(next, base, stmts, n + 1)

\* one iteration of for(auto ibatch = 0; ibatch < nbatch; ++ibatch)
impose_hermitian_symmetry ==
    /\ client.pc = "impose"
    /\ client.ibatch < client.nbatch
    /\ client' = [client EXCEPT
         !.data = ExecuteStatements(client.data, client.ibatch * client.idist,
                      HermitianStatements(client.length, client.istride), 1),
         !.ibatch = @ + 1]
    /\ UNCHANGED <<paramVars, cacheVars, kernel, global, genVars>>

\* the loop over the batches ends and compute_input returns the buffer
ReturnInput ==
    /\ client.pc = "impose"
    /\ client.ibatch >= client.nbatch
    /\ client' = [client EXCEPT !.pc = "returned"]
    /\ UNCHANGED <<paramVars, cacheVars, kernel, global, genVars>>

NextHermitian == compute_input \/ impose_hermitian_symmetry \/ ReturnInput

SpecHermitian == InitHermitian /\ [][NextHermitian]_vars

\* the multi-indices of the data of one batch
HermitianIndices ==
    LET dlen == HermitianDataLength(client.length)
    IN  {k \in [1..Len(dlen) -> 0..4] : \A i \in 1..Len(dlen) : k[i] < dlen[i]}

RECURSIVE IndexOffset(_, _, _)
IndexOffset(k, istride, i) ==
    IF i > Len(istride) THEN 0 ELSE k[i] * istride[i] + IndexOffset(k, istride, i + 1)

ElementAt(b, k) == client.data[b * client.idist + IndexOffset(k, client.istride, 1)]

IsNyquist(i, ki) == client.length[i] % 2 = 0 /\ ki = client.length[i] \div 2

SelfConjugate(k) == \A i \in DOMAIN k : k[i] = 0 \/ IsNyquist(i, k[i])

OnSymmetricPlane(k) == k[Len(k)] = 0 \/ IsNyquist(Len(k), k[Len(k)])

\* the indices of the other axes negated modulo their lengths
Negated(k) ==
    [i \in DOMAIN k |->
        IF i = Len(k) THEN k[i] ELSE (client.length[i] - k[i]) % client.length[i]]

HermitianReturned == client.pc = "returned"

\* C28: after impose_hermitian_symmetry on interleaved data of rank 1 to 3,
\* in every batch every self-conjugate element has imaginary part 0, on the
\* planes where the last-axis index is 0 or Nyquist the element at the
\* negated indices of the other axes is the conjugate of the element at the
\* indices, and every element outside those planes is as set_input left it.
C28_HermitianSymmetryImposed ==
    HermitianReturned =>
        \A b \in 0..(client.nbatch - 1) : \A k \in HermitianIndices :
            /\ SelfConjugate(k) => ElementAt(b, k)[2] = 0
            /\ OnSymmetricPlane(k) => ElementAt(b, Negated(k)) = conj(ElementAt(b, k))
            /\ ~OnSymmetricPlane(k) =>
                 ElementAt(b, k) = InputValue(client.seed,
                     b * client.idist + IndexOffset(k, client.istride, 1))

\* a rank-3 input of two batches with even lengths, so that every Nyquist
\* case and the planes between them occur
C28_Witness ==
    /\ HermitianReturned
    /\ client.length = <<4, 4, 4>>
    /\ client.nbatch = 2
    /\ client.istride[2] = 4
    /\ ElementAt(1, <<3, 1, 2>>) = conj(ElementAt(1, <<1, 3, 2>>))
    /\ ElementAt(1, <<1, 3, 2>>)[2] # 0
    /\ ElementAt(1, <<1, 3, 1>>)[2] # 0

(***************************************************************************)
(* Buffer sizes (client_utils.h): compute_isize / compute_osize against    *)
(* the element offsets compute_index gives, and the elements copy_buffers  *)
(* reads when it is handed the input layout of a validated descriptor.     *)
(***************************************************************************)
SizeLengths == {<<3>>, <<4>>, <<2, 3>>}
SizeTypeChoices ==
    {c \in TypeChoices : c[3] \in {"unset", "complex_planar"}
                         /\ c[4] \in {"unset", "complex_planar"}}
InputDists == {0, 1, 2}
OutputDists == {0, 1, 3}
SizeOffsets == {<<<<0, 0>>, <<0, 0>>>>, <<<<2, 1>>, <<0, 1>>>>}

\* Descriptors with and without strides, with computed, batch-interleaved
\* and user-chosen distances, and with per-buffer offsets.
InitSize ==
    /\ \E l \in SizeLengths, t \in SizeTypeChoices :
       \E is \in NoneOrAll(SmallStrides, Len(l)), os \in NoneOrAll(SmallStrides, Len(l)) :
       \E n \in 1..MaxBatch, id \in InputDists, od \in OutputDists, off \in SizeOffsets :
          request = Request(l, t, is, os, n, id, od, off[1], off[2])
    /\ params = request
    /\ phase = "raw"
    /\ CacheIdle
    /\ RunIdle
    /\ KernelIdle
    /\ GenIdle

\* compute_index: the offset of the element at index, from base
RECURSIVE compute_index(_, _, _)
compute_index(index, stride, base) ==
    IF index = <<>> THEN base
    ELSE Head(index) * Head(stride) + compute_index(Tail(index), Tail(stride), base)

\* the multi-indices partition_rowmajor and increment_rowmajor enumerate
IndicesWithin(length) ==
    {index \in [1..Len(length) -> 0..4] : \A i \in 1..Len(length) : index[i] < length[i]}

\* the element offsets of all batches: idx_base advances by dist per batch
ElementOffsets(length, stride, nbatch, dist) ==
    {compute_index(index, stride, b * dist) : index \in IndicesWithin(length), b \in 0..(nbatch - 1)}

\* copy_buffers with itype == otype: the pairs <<buffer, element>> read from
\* input.  Interleaved data is one call of copy_buffers_1to1 on input[0];
\* real and planar data is one call per buffer, and every call reads
\* input[idx + ioffset[0]].
copy_buffers(type, length, stride, nbatch, dist, ioffset) ==
    {<<buf, idx + ioffset[1]>> :
        buf \in 1..nbuffer(type),
        idx \in ElementOffsets(length, stride, nbatch, dist)}

\* copying the input of the accepted descriptor to a buffer of the same layout
CopyBuffers ==
    /\ phase = "planned"
    /\ client.pc = "idle"
    /\ client' = [pc |-> "copied",
                  read |-> copy_buffers(params.itype, ilength(params), params.istride,
                                        params.nbatch, params.idist, params.ioffset)]
    /\ UNCHANGED <<paramVars, cacheVars, kernel, global, genVars>>

NextSize == Validate \/ Valid \/ CreatePlan \/ CopyBuffers

SpecSize == InitSize /\ [][NextSize]_vars

Validated == phase # "raw"

\* every element of a buffer lies below the buffer's size
ElementsBelowSize(length, stride, nbatch, dist, offset, size) ==
    \A buf \in DOMAIN size :
        \A e \in ElementOffsets(length, stride, nbatch, dist) : e + offset[buf] < size[buf]

SizesCoverElements ==
    /\ ElementsBelowSize(ilength(params), params.istride, params.nbatch, params.idist,
                         params.ioffset, params.isize)
    /\ ElementsBelowSize(olength(params), params.ostride, params.nbatch, params.odist,
                         params.ooffset, params.osize)

UserDistsKept ==
    /\ request.idist # 0 => params.idist = request.idist
    /\ request.odist # 0 => params.odist = request.odist

\* C29: after validate() every element offset of every buffer and batch is
\* below isize[buffer] (osize[buffer]), user-supplied distances are kept,
\* and a buffer of isize[buffer] elements holds every element the copy
\* routine reads from it.
C29_BuffersContainEveryAccess ==
    /\ Validated => SizesCoverElements /\ UserDistsKept
    /\ client.pc = "copied" =>
         \A r \in client.read : r[2] < params.isize[r[1]]

\* what holds of the code: the sizes cover the element offsets taken with
\* each buffer's own offset
C29_SizesCoverOffsets == Validated => SizesCoverElements /\ UserDistsKept

(***************************************************************************)
(* The distance routines (client_utils.h): distance_1to1_complex,          *)
(* distance_1to1_real and distance_1to2 on one-dimensional data.  The      *)
(* three differ in where the components are read; each element gives a     *)
(* real difference and, for complex data, an imaginary difference.         *)
(***************************************************************************)
DistanceRoutines == {"distance_1to1_complex", "distance_1to1_real", "distance_1to2"}
DistanceLengths == {1, 2, 3}
DistanceBatches == {1, 2}
PartitionCounts == {1, 2}
\* the values found in the output buffer; the input buffer holds <<1, 1>>
OutputValues == {<<1, 1>>, <<1, 2>>, <<4, 1>>}
ReferenceValue == <<1, 1>>
linf_cutoff == 2

abs(x) == IF x < 0 THEN 0 - x ELSE x

\* partition_base: [(start0, end0), ...], the last end fixed up to length
partition_base(length, requested) ==
    LET num_parts == Min(length, requested)
        partition_size == length \div num_parts
    IN  [i \in 1..num_parts |->
            [first |-> (i - 1) * partition_size,
             second |-> IF i = num_parts THEN length ELSE i * partition_size]]

InitDistance ==
    /\ \E routine \in DistanceRoutines, length \in DistanceLengths,
          nbatch \in DistanceBatches, count \in PartitionCounts :
         \E output \in [0..(nbatch * length - 1) -> OutputValues] :
            client = [pc |-> "element", routine |-> routine, whole_length |-> length,
                      nbatch |-> nbatch, idist |-> length,
                      partitions |-> partition_base(length, count),
                      output |-> output,
                      b |-> 0, idx_base |-> 0, part |-> 1, index |-> 0,
                      cur_linf |-> 0, cur_l2 |-> 0, linf |-> 0, l2 |-> 0,
                      linf_failures |-> <<>>]
    /\ ParamsIdle
    /\ CacheIdle
    /\ KernelIdle
    /\ GenIdle
    /\ GlobalIdle

\* the differences of the element at idx: the real one and, unless the
\* data is real, the imaginary one
ComponentDiffs(routine, output, idx) ==
    IF routine = "distance_1to1_real"
    THEN <<abs(output[idx][1] - ReferenceValue[1])>>
    ELSE <<abs(output[idx][1] - ReferenceValue[1]), abs(output[idx][2] - ReferenceValue[2])>>

\* cur_linf = std::max(diff, cur_linf); if(cur_linf > linf_cutoff) push_back
RECURSIVE CompareComponents(_, _, _, _)
CompareComponents(diffs, fval, cur_linf, failures) ==
    IF diffs = <<>> THEN [cur_linf |-> cur_linf, linf_failures |-> failures]
    ELSE LET m == Max(Head(diffs), cur_linf)
         IN  CompareComponents(Tail(diffs), fval, m,
                 IF m > linf_cutoff THEN Append(failures, fval) ELSE failures)

SumOfSquares(diffs) ==
    IF Len(diffs) = 1 THEN diffs[1] * diffs[1]
    ELSE diffs[1] * diffs[1] + diffs[2] * diffs[2]

\* the body of the do-while loop for one element of the partition
CompareElement ==
    /\ client.pc = "element"
    /\ LET idx == client.index + client.idx_base
           diffs == ComponentDiffs(client.routine, client.output, idx)
           r == CompareComponents(diffs, <<client.b, idx>>, client.cur_linf,
                                  client.linf_failures)
           last == client.index + 1 >= client.partitions[client.part].second
       IN  client' = [client EXCEPT !.cur_linf = r.cur_linf,
                                    !.linf_failures = r.linf_failures,
                                    !.cur_l2 = @ + SumOfSquares(diffs),
                                    !.index = @ + 1,
                                    !.pc = IF last THEN "reduce" ELSE "element"]
    /\ UNCHANGED <<paramVars, cacheVars, kernel, global, genVars>>

\* the end of a partition: linf = std::max(linf, cur_linf); l2 += cur_l2;
\* then the next partition, the next batch, or the return
EndPartition ==
    /\ client.pc = "reduce"
    /\ LET lastPart == client.part = Len(client.partitions)
           lastBatch == client.b + 1 >= client.nbatch
           nextPart == IF lastPart THEN 1 ELSE client.part + 1
       IN  client' = [client EXCEPT
             !.linf = Max(@, client.cur_linf),
             !.l2 = @ + client.cur_l2,
             !.cur_linf = 0,
             !.cur_l2 = 0,
             !.part = nextPart,
             !.index = client.partitions[nextPart].first,
             !.b = IF lastPart THEN @ + 1 ELSE @,
             !.idx_base = IF lastPart THEN @ + client.idist ELSE @,
             !.pc = IF lastPart /\ lastBatch THEN "return" ELSE "element"]
    /\ UNCHANGED <<paramVars, cacheVars, kernel, global, genVars>>

\* return {.l_2 = sqrt(l2), .l_inf = linf}
ReturnNorms ==
    /\ client.pc = "return"
    /\ client' = [client EXCEPT !.pc = "returned"]
    /\ UNCHANGED <<paramVars, cacheVars, kernel, global, genVars>>

NextDistance == CompareElement \/ EndPartition \/ ReturnNorms

SpecDistance == InitDistance /\ [][NextDistance]_vars

DistanceReturned == client.pc = "returned"

\* the positions (batch, index) of all elements
Positions ==
    {<<b, i + b * client.idist>> : b \in 0..(client.nbatch - 1), i \in 0..(client.whole_length - 1)}

OwnDiffs(pos) == ComponentDiffs(client.routine, client.output, pos[2])

Exceeds(pos) == \E c \in DOMAIN OwnDiffs(pos) : OwnDiffs(pos)[c] > linf_cutoff

Recorded == {client.linf_failures[n] : n \in DOMAIN client.linf_failures}

LinfIsMaximum ==
    /\ \A pos \in Positions : \A c \in DOMAIN OwnDiffs(pos) : OwnDiffs(pos)[c] <= client.linf
    /\ \E pos \in Positions : \E c \in DOMAIN OwnDiffs(pos) : OwnDiffs(pos)[c] = client.linf

\* C30: the routine returns l_inf equal to the largest component difference
\* over all batches and elements, and linf_failures holds exactly the
\* positions of the elements whose own real or imaginary difference exceeds
\* linf_cutoff.
C30_FailuresAreTheExceedingElements ==
    DistanceReturned =>
        /\ LinfIsMaximum
        /\ Recorded = {pos \in Positions : Exceeds(pos)}

\* what holds of the code: l_inf is the maximum, and every element whose own
\* difference exceeds the cutoff is recorded
C30_LinfAndExceedingRecorded ==
    DistanceReturned =>
        /\ LinfIsMaximum
        /\ {pos \in Positions : Exceeds(pos)} \subseteq Recorded

====
